---- MODULE Spec2Model ----
(***************************************************************************)
(* Multi-Agent-Analyst: the bounded orchestration loop                     *)
(* (agents/orchestrator.py, main.py) and the semantic response cache       *)
(* (agents/semantic_cache.py).                                             *)
(*                                                                         *)
(* The specifications share the variables:                                 *)
(*   Spec / FairSpec : one session's orchestration loop;                   *)
(*   CacheSpec       : the cache serving one request at a time;            *)
(*   ConcurrentSpec  : the cache serving two request threads;              *)
(*   RagSpec         : rag_agent over the cache, one call at a time;       *)
(*   LimiterSpec     : the rate limiter, one call at a time;               *)
(*   RacingLimiterSpec : the rate limiter called from two request threads; *)
(*   ApiSpec         : the /query entry point around the loop;             *)
(*   InsertSpec      : cache lookups and inserts without the passing of    *)
(*                     time;                                               *)
(*   RetrainSpec     : the retraining trigger (lambda/retrain_trigger.py). *)
(***************************************************************************)
EXTENDS Integers, Sequences, FiniteSets, TLC

VARIABLES
    \* ---- orchestration loop (graph state of one session) ----
    pc,         \* node the driver runs next: idle, orchestrator, forecasting, rag, db, end, raised
    messages,   \* messages of the current invocation, in order
    work,       \* the work map: a function whose domain is the set of keys present
    steps,      \* the step counter
    llmCalls,   \* reasoning-engine calls issued in the current invocation
    outcome,    \* branch by which the last orchestrator step returned
    decision,   \* the decision the last orchestrator step parsed, None if it had none
    called,     \* the last adapter call of the invocation and what it returned
    \* ---- semantic cache (process-wide state and its stores) ----
    faiss,      \* _cache_state["faiss"]: None or the documents of the in-memory index
    disk,       \* the persisted index artifact: None or its documents
    table,      \* the DynamoDB table: a function from the keys present to items
    now,        \* int(time.time())
    tpc,        \* per thread: position inside save_to_cache
    targ,       \* per thread: arguments and cache_key of the running save_to_cache
    tref,       \* per thread: what its local cache_index refers to
    tloc,       \* per thread: documents of a local index object not (or no longer) the global one
    last,       \* the last thing that happened to the cache, and what it returned
    inserts,    \* save_to_cache calls started so far
    completed,  \* documents of the save_to_cache calls that returned without a failure
    \* ---- entry point (main.py) ----
    requests,   \* _requests: a function from the session ids present to [start, count]
    rl,         \* per thread: position and locals inside rate_limit
    admitted,   \* per session id: the times of its admissions of the last 60 seconds
    request,    \* the request process_query is serving, None if none
    response,   \* the last response sent, None if none
    handled,    \* requests received so far
    \* ---- retraining trigger (lambda/retrain_trigger.py) ----
    lpc,        \* position inside lambda_handler: idle, train, wait, register, deploy, save
    bucket,     \* the S3 bucket: Model/last_trained.json, bronze/, statistics/latest.json
    sagemaker,  \* training jobs, model packages, models, endpoint configurations, the endpoint
    handler,    \* locals of the running lambda_handler, None if none runs
    returned,   \* how the last lambda_handler invocation ended, None while one runs
    clock,      \* datetime.utcnow(), in whole time units
    runs        \* lambda_handler invocations so far

loopVars  == <<pc, messages, work, steps, llmCalls, outcome, decision, called>>
cacheVars == <<faiss, disk, table, now, tpc, targ, tref, tloc, last, inserts, completed>>
apiVars   == <<requests, rl, admitted, request, response, handled>>
retrainVars == <<lpc, bucket, sagemaker, handler, returned, clock, runs>>
vars      == <<pc, messages, work, steps, llmCalls, outcome, decision, called,
               faiss, disk, table, now, tpc, targ, tref, tloc, last, inserts, completed,
               requests, rl, admitted, request, response, handled,
               lpc, bucket, sagemaker, handler, returned, clock, runs>>

\* Optional values (Python None / a value) as sequences of length 0 or 1.
None == <<>>
Some(x) == <<x>>

(***************************************************************************)
(* Orchestration loop                                                      *)
(***************************************************************************)

MAX_STEPS == 5

\* Cap on the length of the message log of one invocation; the loop itself
\* appends at most 2 * MAX_STEPS + 2 messages.
MaxMessages == 12

Actions == {"FINISH", "CALL_FORECASTING", "CALL_RAG", "CALL_DB"}

PendingKeys == {"next_forecasting_payload", "next_rag_query", "next_db_query"}
ResultKeys  == {"forecast_result", "rag_result", "db_result"}

\* Inputs: what the reasoning engine and the adapters may return.
ForecastPayloads == {[horizon_days |-> 7, start_date |-> "None"]}
QueryTexts       == {"", "What does NET_500 mean?"}
FinalAnswers     == {"", "NET_500 is a network error."}
Reasonings       == {"", "The retrieved answer is enough."}

Decisions ==
    [action             : Actions,
     reasoning          : {None} \cup {Some(r) : r \in Reasonings},
     forecasting_payload: {None} \cup {Some(p) : p \in ForecastPayloads},
     rag_query          : {None} \cup {Some(q) : q \in QueryTexts},
     db_query           : {None} \cup {Some(q) : q \in QueryTexts},
     final_answer       : {None} \cup {Some(a) : a \in FinalAnswers}]

\* A decision fills only the field of its own action (the others stay None),
\* and the reasoning is enumerated for the closing decision only; this keeps
\* the enumeration small without removing any branch of the step.
RelevantDecisions ==
    {d \in Decisions :
        /\ (d.action # "CALL_FORECASTING" => d.forecasting_payload = None)
        /\ (d.action # "CALL_RAG" => d.rag_query = None)
        /\ (d.action # "CALL_DB" => d.db_query = None)
        /\ (d.action # "FINISH" => d.final_answer = None)
        /\ (d.action # "FINISH" => d.reasoning = None)}

\* The endpoint call inside forecasting_agent: it returns, raises a
\* ClientError, or raises something else.
ForecastFaults == {"none", "ClientError", "Exception"}

\* faulty variant of forecasting_agent: a failure is reported as an empty
\* forecast, with no error field
forecasting_agent_silent(fault) ==
    IF fault = "none"
    THEN [agent |-> "forecasting_agent", forecast |-> <<"prediction">>]
    ELSE [agent |-> "forecasting_agent", forecast |-> <<>>]
\* forecasting.py:89-129 -- the result forecasting_agent returns
forecasting_agent(fault) ==
    CASE fault = "none" ->
            [agent |-> "forecasting_agent", forecast |-> <<"prediction">>]
      [] fault = "ClientError" ->
            [agent |-> "forecasting_agent", forecast |-> <<>>,
             error |-> "SageMaker error"]
      [] fault = "Exception" ->
            [agent |-> "forecasting_agent", forecast |-> <<>>,
             error |-> "Unexpected error"]

\* A number as json.dumps meets it: a Python int, or the Decimal that the
\* boto3 Table resource returns for a stored number.
Number(n, type) == [number |-> n, type |-> type]

\* The way rag_agent takes when nothing fails: a cache hit on an entry stored
\* without sources, a cache hit on an entry with sources (their page numbers
\* read back from the table), or the full pipeline.
RagPaths == {"hit", "hit_pages", "fresh"}
\* A call inside rag_agent raises, or none does.
RagFaults == {"none", "Exception"}

\* rag.py:149-213 -- the result rag_agent returns
rag_agent(path, fault) ==
    IF fault # "none"
    THEN [agent |-> "rag_agent", answer |-> "Error", sources |-> <<>>, error |-> TRUE]
    ELSE CASE path = "hit" ->
                [agent |-> "rag_agent", answer |-> "answer", sources |-> <<>>,
                 cached |-> TRUE]
           [] path = "hit_pages" ->
                [agent |-> "rag_agent", answer |-> "answer",
                 sources |-> <<[source |-> "manual.pdf", page |-> Number(3, "Decimal")]>>,
                 cached |-> TRUE]
           [] path = "fresh" ->
                [agent |-> "rag_agent", answer |-> "answer",
                 sources |-> <<[source |-> "manual.pdf", page |-> Number(3, "int")]>>,
                 cached |-> FALSE]
DbResults       == {"db_rows", "db_error"}

DEFAULT_FORECAST_PAYLOAD == [horizon_days |-> 2]
DEFAULT_RAG_QUERY == "What information do you need?"
DEFAULT_DB_QUERY  == "Get ticket count from today till 2 days"
STOP_NOTICE       == "Stopped after 5 steps to avoid looping."
FINISHED_FALLBACK == "Finished."

\* faulty variant of OrStr: only None is replaced, "" is kept
OrStrNoneOnly(x, default) == IF x = None THEN default ELSE x[1]
\* Python `x or default` on an optional string: None and "" are falsy.
OrStr(x, default) == IF x = None \/ x = Some("") THEN default ELSE x[1]
\* Python `x.model_dump() if x else default` on an optional payload object.
OrPayload(x, default) == IF x = None THEN default ELSE x[1]

AIMessage(content)    == [role |-> "ai", content |-> content]
HumanMessage(content) == [role |-> "human", content |-> content]
\* orchestrator.py:112-119 -- the debug message: the action and the reasoning
DebugMsg(d) ==
    AIMessage(<<"DEBUG Orchestrator Decision", d.action, OrStr(d.reasoning, "N/A")>>)
NodeMsg(agent, result) == AIMessage(<<"DEBUG Agent returned", agent, result>>)

\* orchestrator.py:176,200,224 -- json.dumps(result, indent=2), no default=:
\* a Decimal inside the result raises TypeError
JsonSerializable(result) ==
    \A i \in 1..Len(result.sources) : result.sources[i].page.type # "Decimal"

\* dict operations on the work map
Has(w, k)    == k \in DOMAIN w
Put(w, k, v) == [x \in (DOMAIN w) \cup {k} |-> IF x = k THEN v ELSE w[x]]
\* faulty variant of Pop: the key is left in place
PopKeeps(w, k) == w
Pop(w, k)    == [x \in (DOMAIN w) \ {k} |-> w[x]]
EmptyWork    == [x \in {} |-> None]
\* faulty variant of Get: the default is taken whatever the map holds
GetDefault(w, k, default) == default
\* The record of the last adapter call once the next step has begun: the
\* payload it was called with is no longer kept.
Settled(c) ==
    IF c = None THEN None
    ELSE Some([x \in (DOMAIN c[1]) \ {"payload"} |-> c[1][x]])

\* Python `w.get(k, default)`
Get(w, k, default) == IF k \in DOMAIN w THEN w[k] ELSE default

\* ForecastPayload(**d): horizon_days is required, start_date is optional
\* and None when not given
ForecastPayload(d) ==
    [horizon_days |-> d.horizon_days,
     start_date   |-> IF "start_date" \in DOMAIN d THEN d.start_date ELSE "None"]

Pending(w) == (DOMAIN w) \cap PendingKeys

\* faulty variant of the loop guard: off by one
StepBoundOffByOne(s) == s > MAX_STEPS
\* orchestrator.py:80 -- the loop guard
StepBoundHit(s) == s >= MAX_STEPS
\* faulty variant of NextSteps: the decision is not counted
NextStepsUncounted(s) == s
\* orchestrator.py:129,151 -- the counter returned by a decision step
NextSteps(s) == s + 1

\* faulty variant of NewWork: the new map starts empty, not as a copy of work
NewWorkFresh(w, d) ==
    CASE d.action = "CALL_FORECASTING" ->
            Put(EmptyWork, "next_forecasting_payload",
                OrPayload(d.forecasting_payload, DEFAULT_FORECAST_PAYLOAD))
      [] d.action = "CALL_RAG" ->
            Put(EmptyWork, "next_rag_query", OrStr(d.rag_query, DEFAULT_RAG_QUERY))
      [] d.action = "CALL_DB" ->
            Put(EmptyWork, "next_db_query", OrStr(d.db_query, DEFAULT_DB_QUERY))
      [] OTHER -> EmptyWork
\* orchestrator.py:133-146 -- the work map a non-FINISH decision returns
NewWork(w, d) ==
    LET w1 == IF d.action = "CALL_FORECASTING"
              THEN Put(w, "next_forecasting_payload",
                       OrPayload(d.forecasting_payload, DEFAULT_FORECAST_PAYLOAD))
              ELSE w
        w2 == IF d.action = "CALL_RAG"
              THEN Put(w1, "next_rag_query", OrStr(d.rag_query, DEFAULT_RAG_QUERY))
              ELSE w1
        w3 == IF d.action = "CALL_DB"
              THEN Put(w2, "next_db_query", OrStr(d.db_query, DEFAULT_DB_QUERY))
              ELSE w2
    IN w3

\* The driver's conditional edge after the orchestrator node: dispatch to the
\* capability whose pending marker is in work, else end the invocation.
Route(w) ==
    IF Has(w, "next_forecasting_payload") THEN "forecasting"
    ELSE IF Has(w, "next_rag_query") THEN "rag"
    ELSE IF Has(w, "next_db_query") THEN "db"
    ELSE "end"

\* main.py:79-85 -- init_state, handed to the graph
Invoke(query) ==
    /\ pc' = "orchestrator"
    /\ messages' = <<HumanMessage(<<query>>)>>
    /\ work' = EmptyWork
    /\ steps' = 0
    /\ llmCalls' = 0
    /\ outcome' = "none"
    /\ decision' = None
    /\ called' = None

\* main.py:77-85 -- run_multi_agent: a new invocation of the graph
Start ==
    /\ pc \in {"idle", "end", "raised"}
    /\ Invoke("query")
    /\ UNCHANGED cacheVars
    /\ UNCHANGED apiVars
    /\ UNCHANGED retrainVars

\* faulty variant of OrchestratorStop: the bound is tested only after the
\* engine has been called
OrchestratorStopAfterCall ==
    /\ pc = "orchestrator"
    /\ StepBoundHit(steps)
    /\ Len(messages) + 1 <= MaxMessages
    /\ llmCalls' = llmCalls + 1
    /\ messages' = Append(messages, AIMessage(<<STOP_NOTICE>>))
    /\ outcome' = "step_bound"
    /\ decision' = None
    /\ called' = called
    /\ pc' = Route(work)
    /\ UNCHANGED <<work, steps>>
    /\ UNCHANGED cacheVars
    /\ UNCHANGED apiVars
    /\ UNCHANGED retrainVars

\* orchestrator.py:79-85 -- entered at the step bound: no engine call
OrchestratorStop ==
    /\ pc = "orchestrator"
    /\ StepBoundHit(steps)
    /\ Len(messages) + 1 <= MaxMessages
    /\ messages' = Append(messages, AIMessage(<<STOP_NOTICE>>))
    /\ work' = work
    /\ steps' = steps
    /\ outcome' = "step_bound"
    /\ decision' = None
    /\ called' = Settled(called)
    /\ pc' = Route(work')
    /\ UNCHANGED <<llmCalls>>
    /\ UNCHANGED cacheVars
    /\ UNCHANGED apiVars
    /\ UNCHANGED retrainVars

\* faulty variant of OrchestratorFinish: the final answer is appended as it
\* came, with no fallback text
OrchestratorFinishRawAnswer ==
    /\ pc = "orchestrator"
    /\ ~StepBoundHit(steps)
    /\ \E d \in RelevantDecisions :
        /\ d.action = "FINISH"
        /\ Len(messages) + 2 <= MaxMessages
        /\ llmCalls' = llmCalls + 1
        /\ messages' = messages \o <<DebugMsg(d), AIMessage(d.final_answer)>>
        /\ work' = work
        /\ steps' = NextSteps(steps)
        /\ outcome' = "finish"
        /\ decision' = Some(d)
        /\ called' = called
        /\ pc' = Route(work')
    /\ UNCHANGED cacheVars
    /\ UNCHANGED apiVars
    /\ UNCHANGED retrainVars

\* faulty variant of OrchestratorFinish: the FINISH branch returns a work map
\* with a retrieval marker in it
OrchestratorFinishWithMarker ==
    /\ pc = "orchestrator"
    /\ ~StepBoundHit(steps)
    /\ \E d \in RelevantDecisions :
        /\ d.action = "FINISH"
        /\ Len(messages) + 2 <= MaxMessages
        /\ llmCalls' = llmCalls + 1
        /\ messages' = messages \o <<DebugMsg(d),
                                     AIMessage(<<OrStr(d.final_answer, FINISHED_FALLBACK)>>)>>
        /\ work' = Put(work, "next_rag_query", DEFAULT_RAG_QUERY)
        /\ steps' = NextSteps(steps)
        /\ outcome' = "finish"
        /\ decision' = Some(d)
        /\ called' = called
        /\ pc' = Route(work')
    /\ UNCHANGED cacheVars
    /\ UNCHANGED apiVars
    /\ UNCHANGED retrainVars

\* orchestrator.py:96-130 -- the engine returns a FINISH decision
OrchestratorFinish ==
    /\ pc = "orchestrator"
    /\ ~StepBoundHit(steps)
    /\ \E d \in RelevantDecisions :
        /\ d.action = "FINISH"
        /\ Len(messages) + 2 <= MaxMessages
        /\ llmCalls' = llmCalls + 1
        /\ messages' = messages \o <<DebugMsg(d),
                                     AIMessage(<<OrStr(d.final_answer, FINISHED_FALLBACK)>>)>>
        /\ work' = work
        /\ steps' = NextSteps(steps)
        /\ outcome' = "finish"
        /\ decision' = Some(d)
        /\ called' = Settled(called)
        /\ pc' = Route(work')
    /\ UNCHANGED cacheVars
    /\ UNCHANGED apiVars
    /\ UNCHANGED retrainVars

\* orchestrator.py:96-119,132-152 -- the engine returns a delegation
OrchestratorDelegate ==
    /\ pc = "orchestrator"
    /\ ~StepBoundHit(steps)
    /\ \E d \in RelevantDecisions :
        /\ d.action # "FINISH"
        /\ Len(messages) + 1 <= MaxMessages
        /\ llmCalls' = llmCalls + 1
        /\ messages' = Append(messages, DebugMsg(d))
        /\ work' = NewWork(work, d)
        /\ steps' = NextSteps(steps)
        /\ outcome' = "delegate"
        /\ decision' = Some(d)
        /\ called' = Settled(called)
        /\ pc' = Route(work')
    /\ UNCHANGED cacheVars
    /\ UNCHANGED apiVars
    /\ UNCHANGED retrainVars

\* orchestrator.py:96-109 -- the engine call raises, or its output does not
\* parse (response["parsed"] is None and decision.action raises): the
\* exception leaves the node and the graph.
OrchestratorRaise ==
    /\ pc = "orchestrator"
    /\ ~StepBoundHit(steps)
    /\ llmCalls' = llmCalls + 1
    /\ outcome' = "raised"
    /\ decision' = None
    /\ pc' = "raised"
    /\ called' = Settled(called)
    /\ UNCHANGED <<messages, work, steps>>
    /\ UNCHANGED cacheVars
    /\ UNCHANGED apiVars
    /\ UNCHANGED retrainVars

\* faulty variant of CallForecastingNode: the node writes its result and is
\* scheduled again, the step is never re-invoked
CallForecastingNodeAgain ==
    /\ pc = "forecasting"
    /\ \E fault \in ForecastFaults :
        LET result == forecasting_agent(fault)
        IN /\ called' = Some([agent |-> "forecasting", fault |-> fault, result |-> result,
                            payload |-> ForecastPayload(
                                Get(work, "next_forecasting_payload",
                                    DEFAULT_FORECAST_PAYLOAD))])
           /\ work' = Put(work, "forecast_result", result)
    /\ pc' = "forecasting"
    /\ UNCHANGED <<messages, steps, llmCalls, outcome, decision>>
    /\ UNCHANGED cacheVars
    /\ UNCHANGED apiVars
    /\ UNCHANGED retrainVars

\* orchestrator.py:158-179
CallForecastingNode ==
    /\ pc = "forecasting"
    /\ Len(messages) + 1 <= MaxMessages
    /\ \E fault \in ForecastFaults :
        LET result == forecasting_agent(fault)
        IN /\ called' = Some([agent |-> "forecasting", fault |-> fault, result |-> result,
                            payload |-> ForecastPayload(
                                Get(work, "next_forecasting_payload",
                                    DEFAULT_FORECAST_PAYLOAD))])
           /\ work' = Pop(Put(work, "forecast_result", result), "next_forecasting_payload")
           /\ messages' = Append(messages, NodeMsg("Forecasting", result))
    /\ steps' = steps
    /\ pc' = "orchestrator"
    /\ UNCHANGED <<llmCalls, outcome, decision>>
    /\ UNCHANGED cacheVars
    /\ UNCHANGED apiVars
    /\ UNCHANGED retrainVars

\* orchestrator.py:182-203
CallRagNode ==
    /\ pc = "rag"
    /\ Len(messages) + 1 <= MaxMessages
    /\ \E path \in RagPaths, fault \in RagFaults :
        LET result == rag_agent(path, fault)
        IN /\ JsonSerializable(result)
           /\ called' = Some([agent |-> "rag", fault |-> fault, result |-> result,
                              payload |-> Get(work, "next_rag_query",
                                              DEFAULT_RAG_QUERY)])
           /\ work' = Pop(Put(work, "rag_result", result), "next_rag_query")
           /\ messages' = Append(messages, NodeMsg("RAG", result))
    /\ steps' = steps
    /\ pc' = "orchestrator"
    /\ UNCHANGED <<llmCalls, outcome, decision>>
    /\ UNCHANGED cacheVars
    /\ UNCHANGED apiVars
    /\ UNCHANGED retrainVars

\* orchestrator.py:182-200 -- json.dumps(result) raises while the return
\* value is built: the exception leaves the node and the graph, the state
\* update is never made
CallRagNodeRaise ==
    /\ pc = "rag"
    /\ \E path \in RagPaths, fault \in RagFaults :
        LET result == rag_agent(path, fault)
        IN /\ ~JsonSerializable(result)
           /\ called' = Some([agent |-> "rag", fault |-> fault, result |-> result,
                              payload |-> Get(work, "next_rag_query",
                                              DEFAULT_RAG_QUERY)])
    /\ pc' = "raised"
    /\ UNCHANGED <<messages, work, steps, llmCalls, outcome, decision>>
    /\ UNCHANGED cacheVars
    /\ UNCHANGED apiVars
    /\ UNCHANGED retrainVars

\* faulty variant of CallDbNode: the step is re-invoked before the result of
\* the delegation has been applied to work
CallDbNodeNotApplied ==
    /\ pc = "db"
    /\ Len(messages) + 1 <= MaxMessages
    /\ \E result \in DbResults :
        /\ called' = Some([agent |-> "db", result |-> result,
                           payload |-> Get(work, "next_db_query", DEFAULT_DB_QUERY)])
        /\ work' = work
        /\ messages' = Append(messages, NodeMsg("DB", result))
    /\ steps' = steps
    /\ pc' = "orchestrator"
    /\ UNCHANGED <<llmCalls, outcome, decision>>
    /\ UNCHANGED cacheVars
    /\ UNCHANGED apiVars
    /\ UNCHANGED retrainVars

\* orchestrator.py:206-227
CallDbNode ==
    /\ pc = "db"
    /\ Len(messages) + 1 <= MaxMessages
    /\ \E result \in DbResults :
        /\ called' = Some([agent |-> "db", result |-> result,
                           payload |-> Get(work, "next_db_query", DEFAULT_DB_QUERY)])
        /\ work' = Pop(Put(work, "db_result", result), "next_db_query")
        /\ messages' = Append(messages, NodeMsg("DB", result))
    /\ steps' = steps
    /\ pc' = "orchestrator"
    /\ UNCHANGED <<llmCalls, outcome, decision>>
    /\ UNCHANGED cacheVars
    /\ UNCHANGED apiVars
    /\ UNCHANGED retrainVars

LoopInit ==
    /\ pc = "idle"
    /\ messages = <<>>
    /\ work = EmptyWork
    /\ steps = 0
    /\ llmCalls = 0
    /\ outcome = "none"
    /\ decision = None
    /\ called = None

CacheIdle ==
    /\ faiss = None
    /\ disk = None
    /\ table = [k \in {} |-> None]
    /\ now = 0
    /\ tpc = [t \in {1, 2} |-> "idle"]
    /\ targ = [t \in {1, 2} |-> <<>>]
    /\ tref = [t \in {1, 2} |-> "none"]
    /\ tloc = [t \in {1, 2} |-> <<>>]
    /\ last = [op |-> "none"]
    /\ inserts = 0
    /\ completed = {}

Sessions == {"s1", "s2"}

ApiIdle ==
    /\ requests = [u \in {} |-> None]
    /\ rl = [t \in {1, 2} |-> [pc |-> "idle"]]
    /\ admitted = [u \in Sessions |-> <<>>]
    /\ request = None
    /\ response = None
    /\ handled = 0

\* Before the first invocation: no record of a training, an empty bronze/
\* prefix, no statistics, nothing in SageMaker
RetrainIdle ==
    /\ lpc = "idle"
    /\ bucket = [last_trained |-> <<>>, bronze |-> {}, stats |-> <<>>]
    /\ sagemaker = [jobs |-> {}, packages |-> <<>>, models |-> {}, configs |-> {},
                    endpoint |-> <<>>]
    /\ handler = <<>>
    /\ returned = <<>>
    /\ clock = 0
    /\ runs = 0

Init == LoopInit /\ CacheIdle /\ ApiIdle /\ RetrainIdle

LoopStep ==
    \/ OrchestratorStop
    \/ OrchestratorFinish
    \/ OrchestratorDelegate
    \/ OrchestratorRaise
    \/ CallForecastingNode
    \/ CallRagNode
    \/ CallRagNodeRaise
    \/ CallDbNode

Next == Start \/ LoopStep

Spec == Init /\ [][Next]_vars

\* Every engine call and every capability call returns (they are blocking
\* calls): a started step of the loop is eventually taken. No fairness on
\* Start: a further request need not arrive.
FairSpec == Spec /\ WF_vars(LoopStep)

(***************************************************************************)
(* Semantic response cache                                                 *)
(***************************************************************************)

\* semantic_cache.py:18 -- 0.92, in hundredths
SIMILARITY_THRESHOLD == 92
\* semantic_cache.py:19
CACHE_TTL_HOURS == 24
TTL_SECONDS == CACHE_TTL_HOURS * 3600

\* save_to_cache calls explored in one behaviour
MaxInserts == 2

Threads == {1, 2}
Other(t) == 3 - t

\* Inputs: query texts, answers and source lists.
Q1 == "What is NET_500?"
Q2 == "  what is net_500?"
Q3 == "What does NET_500 mean?"
Queries == {Q1, Q2, Q3}
\* (answer, contexts, sources) as save_to_cache is called with them: contexts
\* and sources default to None, rag_agent passes lists
Payloads ==
    {[answer |-> "answer one", contexts |-> None, sources |-> None],
     [answer |-> "answer two", contexts |-> Some(<<"chunk">>),
      sources |-> Some(<<"manual.pdf p3">>)]}

\* str.lower().strip() on the query texts
LowerStrip(q) ==
    CASE q = Q1 -> "what is net_500?"
      [] q = Q2 -> "what is net_500?"
      [] q = Q3 -> "what does net_500 mean?"

\* hashlib.md5(...).hexdigest(): a fingerprint of its argument
Md5(x) == <<"md5", x>>

\* faulty variant of get_cache_key: the fingerprint of the text as typed
get_cache_key_raw(query) == Md5(query)
\* semantic_cache.py:57-59
get_cache_key(query) == Md5(LowerStrip(query))

\* The distance FAISS reports between the embeddings of two texts, in
\* hundredths: 0 for the same text, small for paraphrases.
PairScore(a, b) ==
    CASE {a, b} = {Q1, Q2} -> 5
      [] {a, b} = {Q1, Q3} -> 8
      [] {a, b} = {Q2, Q3} -> 20
Score(a, b) == IF a = b THEN 0 ELSE PairScore(a, b)

\* faulty variant of Document: the key is taken of the text as typed
DocumentKeyOfRawText(query) == [page_content |-> query, cache_key |-> Md5(query)]
\* semantic_cache.py:129 -- Document(page_content=query, metadata={cache_key})
Document(query) == [page_content |-> query, cache_key |-> get_cache_key(query)]

\* Python `x or []`
OrList(x) == IF x = None THEN <<>> ELSE x[1]

\* semantic_cache.py:116-124 -- the item written by put_item; t1 and t2 are
\* the two readings of int(time.time())
Item(query, answer, contexts, sources, t1, t2) ==
    [cache_key  |-> get_cache_key(query),
     query      |-> query,
     answer     |-> answer,
     contexts   |-> OrList(contexts),
     sources    |-> OrList(sources),
     created_at |-> t1,
     ttl        |-> t2 + TTL_SECONDS]

InSeq(x, seq) == \E i \in 1..Len(seq) : seq[i] = x

\* similarity_search_with_score(query, k=1): the position of the nearest
\* document, the earliest one among equals.
Nearest(query, docs) ==
    CHOOSE i \in 1..Len(docs) :
        \A j \in 1..Len(docs) :
            \/ Score(query, docs[j].page_content) > Score(query, docs[i].page_content)
            \/ /\ Score(query, docs[j].page_content) = Score(query, docs[i].page_content)
               /\ j >= i

\* semantic_cache.py:79
Similarity(score) == 100 - score

\* faulty variant of TooFar: the threshold itself is rejected
TooFarAtThreshold(similarity) == similarity <= SIMILARITY_THRESHOLD
\* semantic_cache.py:82
TooFar(similarity) == similarity < SIMILARITY_THRESHOLD

\* faulty variant of LoadedIndex: the artifact replaces the index in memory
AlwaysReloaded(mem, file) == file
\* semantic_cache.py:37-47 -- _get_cache_index: the value of
\* _cache_state["faiss"] after the call (what the call returns)
LoadedIndex(mem, file) == IF mem # None THEN mem ELSE file

\* What the index holds, wherever it currently lives.
Entries == IF faiss # None THEN faiss[1] ELSE IF disk # None THEN disk[1] ELSE <<>>

\* faulty variant of LookupOnException: the exception reaches the caller
LookupReraises == [raised |-> TRUE, failed |-> TRUE, hit |-> FALSE]
\* semantic_cache.py:101-102 -- except Exception: return None
LookupOnException == [raised |-> FALSE, failed |-> TRUE, hit |-> FALSE]

Miss == [raised |-> FALSE, failed |-> FALSE, hit |-> FALSE]

\* faulty variant of Search: the record is read without testing that the
\* table returned one, and the KeyError is not caught
SearchItemUnchecked(query, index, tbl, fault) ==
    IF index = None THEN Miss
    ELSE IF fault = "search" THEN LookupOnException
    ELSE LET docs == index[1]
             doc  == docs[Nearest(query, docs)]
             similarity == Similarity(Score(query, doc.page_content))
         IN IF TooFar(similarity) THEN Miss
            ELSE IF fault = "get_item" THEN LookupOnException
            ELSE IF doc.cache_key \notin DOMAIN tbl THEN LookupReraises
            ELSE [raised |-> FALSE, failed |-> FALSE, hit |-> TRUE,
                  answer |-> tbl[doc.cache_key].answer,
                  sources |-> tbl[doc.cache_key].sources,
                  cached |-> TRUE,
                  similar_query |-> doc.page_content,
                  similarity |-> similarity,
                  ttl |-> tbl[doc.cache_key].ttl]
\* faulty variant of Search: with no index, the table is asked for the
\* query's own key
SearchByKeyWhenEmpty(query, index, tbl, fault) ==
    IF index = None
    THEN IF get_cache_key(query) \notin DOMAIN tbl THEN Miss
         ELSE [raised |-> FALSE, failed |-> FALSE, hit |-> TRUE,
               answer |-> tbl[get_cache_key(query)].answer,
               sources |-> tbl[get_cache_key(query)].sources,
               cached |-> TRUE,
               similar_query |-> tbl[get_cache_key(query)].query,
               similarity |-> 100,
               ttl |-> tbl[get_cache_key(query)].ttl]
    ELSE IF fault = "search" THEN LookupOnException
    ELSE LET docs == index[1]
             doc  == docs[Nearest(query, docs)]
             similarity == Similarity(Score(query, doc.page_content))
         IN IF TooFar(similarity) THEN Miss
            ELSE IF fault = "get_item" THEN LookupOnException
            ELSE IF doc.cache_key \notin DOMAIN tbl THEN Miss
            ELSE [raised |-> FALSE, failed |-> FALSE, hit |-> TRUE,
                  answer |-> tbl[doc.cache_key].answer,
                  sources |-> tbl[doc.cache_key].sources,
                  cached |-> TRUE,
                  similar_query |-> doc.page_content,
                  similarity |-> similarity,
                  ttl |-> tbl[doc.cache_key].ttl]
\* faulty variant of Search: when the nearest entry has no record, the other
\* entries within the threshold are tried
SearchFallsBack(query, index, tbl, fault) ==
    IF index = None THEN Miss
    ELSE IF fault = "search" THEN LookupOnException
    ELSE LET docs == index[1]
             doc  == docs[Nearest(query, docs)]
             similarity == Similarity(Score(query, doc.page_content))
             live == {i \in 1..Len(docs) :
                        /\ ~TooFar(Similarity(Score(query, docs[i].page_content)))
                        /\ docs[i].cache_key \in DOMAIN tbl}
         IN IF TooFar(similarity) THEN Miss
            ELSE IF fault = "get_item" THEN LookupOnException
            ELSE IF live = {} THEN Miss
            ELSE LET found == IF doc.cache_key \in DOMAIN tbl THEN doc
                              ELSE docs[CHOOSE i \in live : \A j \in live : i <= j]
                 IN [raised |-> FALSE, failed |-> FALSE, hit |-> TRUE,
                     answer |-> tbl[found.cache_key].answer,
                     sources |-> tbl[found.cache_key].sources,
                     cached |-> TRUE,
                     similar_query |-> found.page_content,
                     similarity |-> Similarity(Score(query, found.page_content)),
                     ttl |-> tbl[found.cache_key].ttl]
\* semantic_cache.py:72-99 -- check_cache once the index is at hand;
\* fault names the call that raises, if any
Search(query, index, tbl, fault) ==
    IF index = None THEN Miss
    ELSE IF fault = "search" THEN LookupOnException
    ELSE LET docs == index[1]
             doc  == docs[Nearest(query, docs)]
             similarity == Similarity(Score(query, doc.page_content))
         IN IF TooFar(similarity) THEN Miss
            ELSE IF fault = "get_item" THEN LookupOnException
            ELSE IF doc.cache_key \notin DOMAIN tbl THEN Miss
            ELSE [raised |-> FALSE, failed |-> FALSE, hit |-> TRUE,
                  answer |-> tbl[doc.cache_key].answer,
                  sources |-> tbl[doc.cache_key].sources,
                  cached |-> TRUE,
                  similar_query |-> doc.page_content,
                  similarity |-> similarity,
                  ttl |-> tbl[doc.cache_key].ttl]

LookupFaults == {"none", "load", "search", "get_item"}

\* What came right before a lookup of `query` under `fault`: a save_to_cache
\* of the same query that ran alone and succeeded, a lookup of the same query
\* under the same fault, or something else.
Before(query, fault) ==
    IF last.op = "insert" /\ last.ok /\ last.clean /\ last.query = query
        THEN [kind |-> "insert_same", answer |-> last.answer, sources |-> last.sources]
    ELSE IF last.op = "lookup" /\ last.query = query /\ last.fault = fault
        THEN [kind |-> "lookup_same", result |-> last.result]
    ELSE [kind |-> "other"]

\* The call that `fault` makes raise is one this lookup reaches.
Reached(query, fault) ==
    LET index == LoadedIndex(faiss, disk)
    IN CASE fault = "none" -> TRUE
         [] fault = "load" -> faiss = None /\ disk # None
         [] fault = "search" -> index # None
         [] fault = "get_item" ->
                /\ index # None
                /\ ~TooFar(Similarity(Score(query,
                        index[1][Nearest(query, index[1])].page_content)))

\* semantic_cache.py:62-102 -- check_cache(query)
Lookup(query, fault) ==
    /\ Reached(query, fault)
    /\ IF faiss = None /\ disk # None /\ fault = "load"
       THEN /\ faiss' = faiss
            /\ last' = [op |-> "lookup", query |-> query, fault |-> fault,
                        result |-> LookupOnException,
                        before |-> Before(query, fault)]
       ELSE /\ faiss' = LoadedIndex(faiss, disk)
            /\ last' = [op |-> "lookup", query |-> query, fault |-> fault,
                        result |-> Search(query, faiss', table, fault),
                        before |-> Before(query, fault)]
    /\ UNCHANGED <<disk, table, now, tpc, targ, tref, tloc, inserts, completed>>
    /\ UNCHANGED loopVars
    /\ UNCHANGED <<requests, rl, admitted, request, response, handled>>
    /\ UNCHANGED retrainVars

CheckCache == \E query \in Queries, fault \in LookupFaults : Lookup(query, fault)

\* semantic_cache.py:138-139 -- except Exception: pass; whether an exception
\* inside save_to_cache reaches the caller
SaveExceptionPropagates == FALSE

\* `last` while thread t is inside save_to_cache: clean as long as nothing
\* else has happened to the cache since the call began.
Inserting(t, fresh) ==
    [op |-> "inserting", thread |-> t,
     clean |-> IF fresh THEN tpc[Other(t)] = "idle"
               ELSE last.op = "inserting" /\ last.thread = t /\ last.clean]

\* `last` when thread t's save_to_cache returns
Inserted(t, a, ok) ==
    [op |-> "insert", query |-> a.query, answer |-> a.answer, sources |-> a.sources,
     ok |-> ok, raised |-> (~ok /\ SaveExceptionPropagates),
     clean |-> last.op = "inserting" /\ last.thread = t /\ last.clean]

\* thread t leaves save_to_cache
Return(t) ==
    /\ tpc' = [tpc EXCEPT ![t] = "idle"]
    /\ targ' = [targ EXCEPT ![t] = None]
    /\ tref' = [tref EXCEPT ![t] = "none"]
    /\ tloc' = [tloc EXCEPT ![t] = None]

\* faulty variant of InsertPut: a put_item that raises is passed over and
\* the insert goes on to the index
InsertPutPassedOver(t, drifts) ==
    /\ tpc[t] = "idle"
    /\ t = 2 => tpc[1] # "idle"
    /\ inserts < MaxInserts
    /\ inserts' = inserts + 1
    /\ \E query \in Queries, p \in Payloads, d \in drifts,
          fault \in {"none", "put_item"} :
        LET a == [query |-> query, answer |-> p.answer, sources |-> p.sources,
                  entries |-> Len(Entries)]
        IN /\ now' = now + d
           /\ table' = IF fault = "put_item" THEN table
                        ELSE Put(table, get_cache_key(query),
                                 Item(query, p.answer, p.contexts, p.sources, now, now + d))
           /\ tpc' = [tpc EXCEPT ![t] = "index"]
           /\ targ' = [targ EXCEPT ![t] = Some(a)]
           /\ last' = Inserting(t, TRUE)
    /\ UNCHANGED <<faiss, disk, tref, tloc, completed>>
    /\ UNCHANGED loopVars
    /\ UNCHANGED <<requests, rl, admitted, request, response, handled>>
    /\ UNCHANGED retrainVars

\* semantic_cache.py:112-124 -- cache_key and put_item; the clock moves by
\* some d in drifts between the two readings of time.time()
InsertPut(t, drifts) ==
    /\ tpc[t] = "idle"
    \* the threads are interchangeable: thread 2 is the one that arrives second
    /\ t = 2 => tpc[1] # "idle"
    /\ inserts < MaxInserts
    /\ inserts' = inserts + 1
    /\ \E query \in Queries, p \in Payloads, d \in drifts,
          fault \in {"none", "put_item"} :
        \* entries: how many entries the index has when the call begins
        LET a == [query |-> query, answer |-> p.answer, sources |-> p.sources,
                  entries |-> Len(Entries)]
        IN /\ now' = now + d
           /\ IF fault = "put_item"
              THEN /\ last' = [Inserted(t, a, FALSE) EXCEPT
                                 !.clean = tpc[Other(t)] = "idle"]
                   /\ UNCHANGED <<table, tpc, targ>>
              ELSE /\ table' = Put(table, get_cache_key(query),
                                   Item(query, p.answer, p.contexts, p.sources, now, now + d))
                   /\ tpc' = [tpc EXCEPT ![t] = "index"]
                   /\ targ' = [targ EXCEPT ![t] = Some(a)]
                   /\ last' = Inserting(t, TRUE)
    /\ UNCHANGED <<faiss, disk, tref, tloc, completed>>
    /\ UNCHANGED loopVars
    /\ UNCHANGED <<requests, rl, admitted, request, response, handled>>
    /\ UNCHANGED retrainVars

\* semantic_cache.py:127 -- cache_index = _get_cache_index()
InsertGetIndex(t) ==
    /\ tpc[t] = "index"
    /\ \E fault \in {"none", "load"} :
        /\ fault = "load" => (faiss = None /\ disk # None)
        /\ IF fault = "load"
           THEN /\ Return(t)
                /\ last' = Inserted(t, targ[t][1], FALSE)
                /\ faiss' = faiss
           ELSE /\ faiss' = LoadedIndex(faiss, disk)
                /\ tref' = [tref EXCEPT ![t] = IF faiss' = None THEN "none" ELSE "global"]
                /\ tpc' = [tpc EXCEPT ![t] = "add"]
                /\ last' = Inserting(t, FALSE)
                /\ UNCHANGED <<targ, tloc>>
    /\ UNCHANGED <<disk, table, now, inserts, completed>>
    /\ UNCHANGED loopVars
    /\ UNCHANGED <<requests, rl, admitted, request, response, handled>>
    /\ UNCHANGED retrainVars

\* semantic_cache.py:129-134 -- from_documents on a new index, or
\* add_documents on the one at hand; the embedding call may raise
InsertAdd(t) ==
    /\ tpc[t] = "add"
    /\ \E fault \in {"none", "embed"} :
        LET doc == Document(targ[t][1].query)
        IN IF fault = "embed"
           THEN /\ Return(t)
                /\ last' = Inserted(t, targ[t][1], FALSE)
                /\ faiss' = faiss
           ELSE /\ tpc' = [tpc EXCEPT ![t] = "save"]
                /\ last' = Inserting(t, FALSE)
                /\ targ' = targ
                /\ CASE tref[t] = "none" ->
                            /\ tloc' = [tloc EXCEPT ![t] = Some(<<doc>>)]
                            /\ tref' = [tref EXCEPT ![t] = "own"]
                            /\ faiss' = faiss
                     [] tref[t] = "global" ->
                            /\ faiss' = Some(Append(faiss[1], doc))
                            /\ UNCHANGED <<tloc, tref>>
                     [] tref[t] = "own" ->
                            /\ tloc' = [tloc EXCEPT ![t] = Some(Append(tloc[t][1], doc))]
                            /\ UNCHANGED <<tref, faiss>>
    /\ UNCHANGED <<disk, table, now, inserts, completed>>
    /\ UNCHANGED loopVars
    /\ UNCHANGED <<requests, rl, admitted, request, response, handled>>
    /\ UNCHANGED retrainVars

\* faulty variant of InsertSave: the index is kept in memory and written to
\* the artifact at some later time
InsertSaveLater(t) ==
    /\ tpc[t] = "save"
    /\ faiss' = IF tref[t] = "global" THEN faiss ELSE tloc[t]
    /\ completed' = completed \cup {Document(targ[t][1].query)}
    /\ last' = Inserted(t, targ[t][1], TRUE)
    /\ Return(t)
    /\ UNCHANGED <<disk, table, now, inserts>>
    /\ UNCHANGED loopVars
    /\ UNCHANGED <<requests, rl, admitted, request, response, handled>>
    /\ UNCHANGED retrainVars

\* semantic_cache.py:136, 50-54 -- _save_cache_index: save_local, then the
\* saved object becomes _cache_state["faiss"]
InsertSave(t) ==
    /\ tpc[t] = "save"
    /\ \E fault \in {"none", "save_local"} :
        LET index == IF tref[t] = "global" THEN faiss ELSE tloc[t]
            o == Other(t)
        IN IF fault = "save_local"
           THEN /\ Return(t)
                /\ last' = Inserted(t, targ[t][1], FALSE)
                /\ UNCHANGED <<faiss, disk, completed>>
           ELSE /\ disk' = index
                /\ faiss' = index
                /\ completed' = completed \cup {Document(targ[t][1].query)}
                /\ last' = Inserted(t, targ[t][1], TRUE)
                /\ tpc' = [tpc EXCEPT ![t] = "idle"]
                /\ targ' = [targ EXCEPT ![t] = None]
                \* a thread still holding the replaced object keeps it
                /\ IF tref[t] = "own" /\ tref[o] = "global"
                   THEN /\ tref' = [tref EXCEPT ![t] = "none", ![o] = "own"]
                        /\ tloc' = [tloc EXCEPT ![t] = None, ![o] = faiss]
                   ELSE /\ tref' = [tref EXCEPT ![t] = "none"]
                        /\ tloc' = [tloc EXCEPT ![t] = None]
    /\ UNCHANGED <<table, now, inserts>>
    /\ UNCHANGED loopVars
    /\ UNCHANGED <<requests, rl, admitted, request, response, handled>>
    /\ UNCHANGED retrainVars

\* Time passes, between two cache operations, until an item's ttl is reached.
Tick ==
    /\ \A t \in Threads : tpc[t] = "idle"
    /\ \E k \in DOMAIN table :
        /\ table[k].ttl > now
        /\ now' = table[k].ttl
    /\ last' = [op |-> "tick"]
    /\ UNCHANGED <<faiss, disk, table, tpc, targ, tref, tloc, inserts, completed>>
    /\ UNCHANGED loopVars
    /\ UNCHANGED <<requests, rl, admitted, request, response, handled>>
    /\ UNCHANGED retrainVars

\* create_dynamodb_table.py:37-44 -- TTL on attribute "ttl": the table
\* deletes an item some time after its ttl has passed
Expire ==
    /\ \E k \in DOMAIN table :
        /\ table[k].ttl <= now
        /\ table' = Pop(table, k)
    /\ last' = [op |-> "expire"]
    /\ UNCHANGED <<faiss, disk, now, tpc, targ, tref, tloc, inserts, completed>>
    /\ UNCHANGED loopVars
    /\ UNCHANGED <<requests, rl, admitted, request, response, handled>>
    /\ UNCHANGED retrainVars

\* The process restarts: the module state is gone, the stores stay.
Restart ==
    /\ faiss' = None
    /\ tpc' = [t \in Threads |-> "idle"]
    /\ targ' = [t \in Threads |-> None]
    /\ tref' = [t \in Threads |-> "none"]
    /\ tloc' = [t \in Threads |-> None]
    /\ last' = [op |-> "restart"]
    /\ UNCHANGED <<disk, table, now, inserts, completed>>
    /\ UNCHANGED loopVars
    /\ UNCHANGED <<requests, rl, admitted, request, response, handled>>
    /\ UNCHANGED retrainVars

\* save_to_cache, one call at a time
SaveToCache ==
    InsertPut(1, {0}) \/ InsertGetIndex(1) \/ InsertAdd(1) \/ InsertSave(1)

\* save_to_cache called from two request threads at once
SaveToCacheConcurrently ==
    \E t \in Threads :
        InsertPut(t, {0, 1}) \/ InsertGetIndex(t) \/ InsertAdd(t) \/ InsertSave(t)

CacheNext == CheckCache \/ SaveToCache \/ Tick \/ Expire \/ Restart

\* The cache serving one request at a time, each call within one clock second.
CacheSpec == Init /\ [][CacheNext]_vars

ConcurrentNext == CheckCache \/ SaveToCacheConcurrently \/ Tick \/ Expire \/ Restart

\* The cache serving two request threads (the endpoint is a sync handler,
\* run on a thread pool), the clock free to move inside a call.
ConcurrentSpec == Init /\ [][ConcurrentNext]_vars

InsertNext == CheckCache \/ SaveToCache \/ Restart

\* The cache with lookups, inserts, failures inside an insert and restarts
\* at any point of an insert, and no record expiring.
InsertSpec == Init /\ [][InsertNext]_vars

\* ---- rag_agent over the cache ----

\* semantic_cache.py:62-102 -- check_cache(query): what it returns and what
\* _cache_state["faiss"] is afterwards
check_cache(query, fault) ==
    IF faiss = None /\ disk # None /\ fault = "load"
    THEN [faiss |-> faiss, result |-> LookupOnException]
    ELSE [faiss |-> LoadedIndex(faiss, disk),
          result |-> Search(query, LoadedIndex(faiss, disk), table, fault)]

SaveFaults == {"none", "put_item", "embed", "save_local"}

\* semantic_cache.py:105-139 -- save_to_cache run alone at time t on the
\* index in memory `mem`: the table, the index in memory and the artifact
\* afterwards. Every exception is swallowed where it occurs.
save_to_cache(query, answer, contexts, sources, mem, fault, t) ==
    LET item   == Item(query, answer, contexts, sources, t, t)
        index  == LoadedIndex(mem, disk)
        added  == IF index = None THEN Some(<<Document(query)>>)
                  ELSE Some(Append(index[1], Document(query)))
        stored == Put(table, get_cache_key(query), item)
    IN CASE fault = "put_item" ->
                [table |-> table, faiss |-> mem, disk |-> disk, ok |-> FALSE]
         [] fault = "embed" ->
                [table |-> stored, faiss |-> index, disk |-> disk, ok |-> FALSE]
         [] fault = "save_local" ->
                \* add_documents has changed the index in memory; a new index
                \* that could not be saved is dropped
                [table |-> stored, faiss |-> IF index = None THEN None ELSE added,
                 disk |-> disk, ok |-> FALSE]
         [] fault = "none" ->
                [table |-> stored, faiss |-> added, disk |-> added, ok |-> TRUE]

\* rag.py:168-170 -- the document index: already loaded, built by
\* create_vectorstore, or none (no documents)
Stores == {"loaded", "created", "none"}
\* rag.py:181-188 -- the call of the pipeline that raises, if any
PipelineFaults == {"none", "similarity_search", "chain.invoke"}
\* answers the generation call produces
Answers == {"answer one", "answer two"}
\* rag.py:190-197 -- the sources and contexts of the retrieved documents
RetrievedSources == <<"manual.pdf p3">>
RetrievedContexts == <<"chunk">>

NO_DOCUMENTS == "No documents loaded. Add PDFs to S3 bucket and restart."

\* faulty variant of RagRun: the pipeline runs whatever the lookup returned
RagRunAlways(query, lookup, store, fault, answer) ==
    IF store = "none"
    THEN [trace  |-> <<"check_cache", "get_vectorstore", "create_vectorstore">>,
          save   |-> FALSE,
          result |-> [agent |-> "rag_agent", query |-> query, answer |-> NO_DOCUMENTS,
                      sources |-> <<>>]]
    ELSE [trace  |-> <<"check_cache", "get_vectorstore", "similarity_search",
                       "chain.invoke", "save_to_cache">>,
          save   |-> TRUE,
          result |-> [agent |-> "rag_agent", query |-> query, answer |-> answer,
                      sources |-> RetrievedSources, cached |-> FALSE]]
\* faulty variant of RagRun: the result is saved whenever the cache missed,
\* whatever the result is
RagRunSavesAll(query, lookup, store, fault, answer) ==
    LET error == [agent |-> "rag_agent", query |-> query, answer |-> "Error",
                  sources |-> <<>>, error |-> TRUE]
    IN IF lookup.hit
       THEN [trace  |-> <<"check_cache">>,
             save   |-> FALSE,
             result |-> [agent |-> "rag_agent", query |-> query,
                         answer |-> lookup.answer, sources |-> lookup.sources,
                         cached |-> TRUE]]
       ELSE IF store = "none"
       THEN [trace  |-> <<"check_cache", "get_vectorstore", "create_vectorstore",
                          "save_to_cache">>,
             save   |-> TRUE,
             result |-> [agent |-> "rag_agent", query |-> query,
                         answer |-> NO_DOCUMENTS, sources |-> <<>>]]
       ELSE IF fault # "none"
       THEN [trace  |-> <<"check_cache", "get_vectorstore", "similarity_search",
                          "save_to_cache">>,
             save   |-> TRUE, result |-> error]
       ELSE [trace  |-> <<"check_cache", "get_vectorstore", "similarity_search",
                          "chain.invoke", "save_to_cache">>,
             save   |-> TRUE,
             result |-> [agent |-> "rag_agent", query |-> query, answer |-> answer,
                         sources |-> RetrievedSources, cached |-> FALSE]]
\* rag.py:149-213 -- rag_agent(query): the calls it makes, in order, whether
\* save_to_cache is among them, and the result it returns
RagRun(query, lookup, store, fault, answer) ==
    LET vectorstore == IF store = "loaded" THEN <<"get_vectorstore">>
                       ELSE <<"get_vectorstore", "create_vectorstore">>
        error == [agent |-> "rag_agent", query |-> query, answer |-> "Error",
                  sources |-> <<>>, error |-> TRUE]
    IN IF lookup.raised
       THEN [trace |-> <<"check_cache">>, save |-> FALSE, result |-> error]
       ELSE IF lookup.hit
       THEN [trace  |-> <<"check_cache">>,
             save   |-> FALSE,
             result |-> [agent |-> "rag_agent", query |-> query,
                         answer |-> lookup.answer, sources |-> lookup.sources,
                         cached |-> TRUE]]
       ELSE IF store = "none"
       THEN [trace  |-> <<"check_cache">> \o vectorstore,
             save   |-> FALSE,
             result |-> [agent |-> "rag_agent", query |-> query,
                         answer |-> NO_DOCUMENTS, sources |-> <<>>]]
       ELSE IF fault = "similarity_search"
       THEN [trace  |-> <<"check_cache">> \o vectorstore \o <<"similarity_search">>,
             save   |-> FALSE, result |-> error]
       ELSE IF fault = "chain.invoke"
       THEN [trace  |-> <<"check_cache">> \o vectorstore
                            \o <<"similarity_search", "chain.invoke">>,
             save   |-> FALSE, result |-> error]
       ELSE [trace  |-> <<"check_cache">> \o vectorstore
                            \o <<"similarity_search", "chain.invoke", "save_to_cache">>,
             save   |-> TRUE,
             result |-> [agent |-> "rag_agent", query |-> query, answer |-> answer,
                         sources |-> RetrievedSources, cached |-> FALSE]]

\* rag.py:145-213 -- one call of rag_agent, run alone. The inputs of calls
\* that are not made are not varied.
RagAgent(query) ==
    /\ \A t \in Threads : tpc[t] = "idle"
    /\ \E lookupFault \in LookupFaults :
        /\ Reached(query, lookupFault)
        /\ \E looked \in {check_cache(query, lookupFault)} :
           \E miss \in {~looked.result.hit /\ ~looked.result.raised} :
              \E store \in IF miss THEN Stores ELSE {"loaded"} :
              \E fault \in IF miss /\ store # "none" THEN PipelineFaults ELSE {"none"} :
              \E answer \in IF miss /\ store # "none" /\ fault = "none"
                            THEN Answers ELSE {"answer one"} :
              \E saveFault \in IF miss /\ store # "none" /\ fault = "none"
                               THEN SaveFaults ELSE {"none"} :
              \E run \in {RagRun(query, looked.result, store, fault, answer)} :
              \E saved \in {save_to_cache(query, run.result.answer,
                                           Some(RetrievedContexts),
                                           Some(run.result.sources), looked.faiss,
                                           saveFault, now)} :
                   /\ run.save => inserts < MaxInserts
                   /\ called' = Some([agent |-> "rag", query |-> query,
                                      lookup |-> looked.result,
                                      store |-> IF InSeq("get_vectorstore", run.trace)
                                                THEN store ELSE "not called",
                                      fault |-> IF InSeq("similarity_search", run.trace)
                                                THEN fault ELSE "not called",
                                      trace |-> run.trace,
                                      save |-> IF run.save THEN saveFault
                                               ELSE "not called",
                                      result |-> run.result])
                   /\ IF run.save
                      THEN /\ table' = saved.table
                           /\ faiss' = saved.faiss
                           /\ disk' = saved.disk
                           /\ inserts' = inserts + 1
                           /\ completed' = IF saved.ok
                                           THEN completed \cup {Document(query)}
                                           ELSE completed
                      ELSE /\ faiss' = looked.faiss
                           /\ UNCHANGED <<table, disk, inserts, completed>>
    /\ last' = [op |-> "rag"]
    /\ UNCHANGED <<now, tpc, targ, tref, tloc>>
    /\ UNCHANGED <<pc, messages, work, steps, llmCalls, outcome, decision>>
    /\ UNCHANGED <<requests, rl, admitted, request, response, handled>>
    /\ UNCHANGED retrainVars

RagNext == (\E query \in Queries : RagAgent(query)) \/ Restart

\* rag_agent called by one request at a time, on the cache it shares.
RagSpec == Init /\ [][RagNext]_vars

(***************************************************************************)
(* Entry point: rate limiter and /query handler                            *)
(***************************************************************************)

\* main.py:32 -- rate_limit(user_id, limit=10, window=60)
LIMIT == 10
WINDOW == 60

\* requests received in one behaviour of the entry point
MaxRequests == 2
\* the clock of the rate limiter stops here
MaxTime == 61
\* overlapping calls stop arriving once this many admissions are on the log
MaxAdmitted == 11

\* main.py:32-39 -- rate_limit(user_id) run at time t on _requests = reqs:
\* whether it raises 429, and _requests afterwards
rate_limit(reqs, user_id, t) ==
    IF user_id \notin DOMAIN reqs \/ t - reqs[user_id].start > WINDOW
    THEN [raised |-> FALSE,
          requests |-> Put(reqs, user_id, [start |-> t, count |-> 1])]
    ELSE IF reqs[user_id].count >= LIMIT
    THEN [raised |-> TRUE, requests |-> reqs]
    ELSE [raised |-> FALSE,
          requests |-> Put(reqs, user_id, [start |-> reqs[user_id].start,
                                           count |-> reqs[user_id].count + 1])]

\* The admissions of `times` that are at most one window old at time t.
Recent(times, t) == SelectSeq(times, LAMBDA x : t - x <= WINDOW)

\* the admission of user_id at time t, added to the log
Admit(user_id, t) == [admitted EXCEPT ![user_id] = Append(@, t)]

RlIdle == \A t \in {1, 2} : rl[t].pc = "idle"

\* main.py:32-39 -- one call of rate_limit, run alone
RateLimit(user_id) ==
    /\ RlIdle
    /\ LET r == rate_limit(requests, user_id, now)
       IN /\ requests' = r.requests
          /\ admitted' = IF r.raised THEN admitted ELSE Admit(user_id, now)
          /\ response' = Some([kind |-> "rate_limit", session_id |-> user_id,
                               raised |-> r.raised])
    /\ UNCHANGED <<rl, request, handled>>
    /\ UNCHANGED <<faiss, disk, table, now, tpc, targ, tref, tloc, last, inserts, completed>>
    /\ UNCHANGED retrainVars
    /\ UNCHANGED loopVars

\* Time passes, between two calls, to the last second of a window or to the
\* first second after it.
LimiterTick ==
    /\ RlIdle
    /\ \E u \in DOMAIN requests, d \in {WINDOW, WINDOW + 1} :
        /\ requests[u].start + d > now
        /\ requests[u].start + d <= MaxTime
        /\ now' = requests[u].start + d
    /\ admitted' = [u \in Sessions |-> Recent(admitted[u], now')]
    /\ response' = None
    /\ UNCHANGED <<requests, rl, request, handled>>
    /\ UNCHANGED <<faiss, disk, table, tpc, targ, tref, tloc, last, inserts, completed>>
    /\ UNCHANGED retrainVars
    /\ UNCHANGED loopVars

LimiterNext == (\E u \in Sessions : RateLimit(u)) \/ LimiterTick

\* The rate limiter serving one call at a time.
LimiterSpec == Init /\ [][LimiterNext]_vars

\* ---- rate_limit statement by statement, for calls that overlap ----

RlFrame ==
    /\ UNCHANGED <<request, handled>>
    /\ UNCHANGED <<faiss, disk, table, now, tpc, targ, tref, tloc, last, inserts, completed>>
    /\ UNCHANGED retrainVars
    /\ UNCHANGED loopVars

\* main.py:33 -- now = time.time()
RlEnter(t, user_id) ==
    /\ rl[t].pc = "idle"
    \* the threads are interchangeable: thread 2 is the one that arrives second
    /\ t = 2 => rl[1].pc # "idle"
    /\ Len(admitted[user_id]) < MaxAdmitted
    /\ rl' = [rl EXCEPT ![t] = [pc |-> "test", user_id |-> user_id, now |-> now]]
    /\ UNCHANGED <<requests, admitted, response>>
    /\ RlFrame

\* main.py:34 -- if user_id not in _requests or now - start > window
RlTest(t) ==
    /\ rl[t].pc = "test"
    /\ LET u == rl[t].user_id
       IN rl' = [rl EXCEPT ![t].pc =
                    IF u \notin DOMAIN requests \/ rl[t].now - requests[u].start > WINDOW
                    THEN "open" ELSE "limit"]
    /\ UNCHANGED <<requests, admitted, response>>
    /\ RlFrame

\* main.py:35 -- _requests[user_id] = [now, 1]
RlOpen(t) ==
    /\ rl[t].pc = "open"
    /\ requests' = Put(requests, rl[t].user_id, [start |-> rl[t].now, count |-> 1])
    /\ admitted' = Admit(rl[t].user_id, now)
    /\ response' = Some([kind |-> "rate_limit", session_id |-> rl[t].user_id,
                         raised |-> FALSE])
    /\ rl' = [rl EXCEPT ![t] = [pc |-> "idle"]]
    /\ RlFrame

\* main.py:36-37 -- elif count >= limit: raise HTTPException(429)
RlLimit(t) ==
    /\ rl[t].pc = "limit"
    /\ IF requests[rl[t].user_id].count >= LIMIT
       THEN /\ response' = Some([kind |-> "rate_limit", session_id |-> rl[t].user_id,
                                 raised |-> TRUE])
            /\ rl' = [rl EXCEPT ![t] = [pc |-> "idle"]]
       ELSE /\ response' = response
            /\ rl' = [rl EXCEPT ![t].pc = "read"]
    /\ UNCHANGED <<requests, admitted>>
    /\ RlFrame

\* main.py:39 -- _requests[user_id][1] += 1: the count is read ...
RlRead(t) ==
    /\ rl[t].pc = "read"
    /\ rl' = [rl EXCEPT ![t] = [pc |-> "write", user_id |-> rl[t].user_id,
                                now |-> rl[t].now,
                                read |-> requests[rl[t].user_id].count]]
    /\ UNCHANGED <<requests, admitted, response>>
    /\ RlFrame

\* main.py:39 -- ... and the count read, plus 1, is stored
RlWrite(t) ==
    /\ rl[t].pc = "write"
    /\ requests' = [requests EXCEPT ![rl[t].user_id].count = rl[t].read + 1]
    /\ admitted' = Admit(rl[t].user_id, now)
    /\ response' = Some([kind |-> "rate_limit", session_id |-> rl[t].user_id,
                         raised |-> FALSE])
    /\ rl' = [rl EXCEPT ![t] = [pc |-> "idle"]]
    /\ RlFrame

RateLimitConcurrently ==
    \E t \in {1, 2} :
        RlEnter(t, "s1") \/ RlTest(t) \/ RlOpen(t) \/ RlLimit(t) \/ RlRead(t) \/ RlWrite(t)

RacingLimiterNext == RateLimitConcurrently \/ LimiterTick

\* The rate limiter called from two request threads (the endpoint is a sync
\* handler, run on a thread pool).
RacingLimiterSpec == Init /\ [][RacingLimiterNext]_vars

\* ---- POST /query ----

\* main.py:50-52 -- QueryRequest.query, as received
Bodies == {"", "  ", " query "}

\* main.py:99 -- request.query.strip()
Strip(q) ==
    CASE q = "" -> ""
      [] q = "  " -> ""
      [] q = " query " -> "query"
      [] OTHER -> q

\* main.py:100, 37, 160 and the framework's answer to an unhandled exception
HttpError(status, detail) ==
    Some([kind |-> "http", status |-> status, detail |-> detail])

\* main.py:145-150 -- QueryResponse(query, answer, work, steps)
QueryResponse(query, answer, w, n) ==
    Some([kind |-> "http", status |-> 200, query |-> query, answer |-> answer,
          work |-> w, steps |-> n])

\* cloudwatch.put_metric_data (config.py:64, 74), called without a handler
MetricsFaults == {"none", "ClientError"}

\* no request of the session is being served
Waiting ==
    /\ request = None
    /\ pc = "idle"
    /\ handled < MaxRequests

ApiFrame ==
    /\ UNCHANGED <<faiss, disk, table, now, tpc, targ, tref, tloc, last, inserts, completed>>
    /\ UNCHANGED retrainVars
    /\ UNCHANGED rl

\* main.py:99-100 -- an empty query is refused before the limiter is asked
ProcessQueryEmpty(q) ==
    /\ Waiting
    /\ Strip(q) = ""
    /\ response' = HttpError(400, <<"Query cannot be empty">>)
    /\ handled' = handled + 1
    /\ UNCHANGED <<requests, admitted, request>>
    /\ UNCHANGED loopVars
    /\ ApiFrame

\* main.py:102 -- rate_limit raises: 429, nothing else is run
ProcessQueryLimited(q, session_id) ==
    /\ Waiting
    /\ Strip(q) # ""
    /\ rate_limit(requests, session_id, now).raised
    /\ requests' = rate_limit(requests, session_id, now).requests
    /\ response' = HttpError(429, <<"Too many requests. Try again later.">>)
    /\ handled' = handled + 1
    /\ UNCHANGED <<admitted, request>>
    /\ UNCHANGED loopVars
    /\ ApiFrame

\* main.py:102-117 -- the request is admitted and the graph is invoked
ProcessQueryRun(q, session_id) ==
    /\ Waiting
    /\ Strip(q) # ""
    /\ ~rate_limit(requests, session_id, now).raised
    /\ requests' = rate_limit(requests, session_id, now).requests
    /\ admitted' = Admit(session_id, now)
    /\ request' = Some([query |-> q, session_id |-> session_id])
    /\ response' = None
    /\ handled' = handled + 1
    /\ Invoke(q)
    /\ ApiFrame

\* main.py:150, 160 -- the handler leaves: the state the graph returned, a
\* local of the call, is gone
Forget ==
    /\ pc' = "idle"
    /\ messages' = <<>>
    /\ work' = EmptyWork
    /\ steps' = 0
    /\ llmCalls' = 0
    /\ outcome' = "none"
    /\ decision' = None
    /\ called' = None

\* faulty variant of FinalAnswer: the first message is returned
FinalAnswerFirst(msgs) ==
    IF Len(msgs) > 0 THEN msgs[1].content ELSE <<"No response generated">>
\* main.py:119 -- messages[-1].content if messages else "No response generated"
FinalAnswer(msgs) ==
    IF Len(msgs) > 0 THEN msgs[Len(msgs)].content ELSE <<"No response generated">>

\* main.py:160 -- the handler's answer to exception e, which it names
Failure(e) == HttpError(500, <<"Error processing query: ", e>>)
\* the framework's answer to an exception that leaves the handler
ServerError == HttpError(500, <<"Internal Server Error">>)

\* main.py:152-160 -- except Exception as e: log_error, then
\* HTTPException(500); log_error sends a metric too (config.py:160)
Except(e, fault) == IF fault = "none" THEN Failure(e) ELSE ServerError

\* main.py:118-150 -- the graph returned: the response is built from the
\* final state, after log_metrics; the handler's locals end with the call
ProcessQueryReturn(metrics, errorMetric) ==
    /\ request # None
    /\ pc = "end"
    /\ response' = IF metrics = "none"
                   THEN QueryResponse(request[1].query, FinalAnswer(messages), work, steps)
                   ELSE Except("ClientError", errorMetric)
    /\ request' = None
    /\ Forget
    /\ UNCHANGED <<requests, admitted, handled>>
    /\ ApiFrame

\* faulty variant of ProcessQueryFail: the state reached before the
\* exception is answered as a success
ProcessQueryFailPartial(errorMetric) ==
    /\ request # None
    /\ pc = "raised"
    /\ response' = QueryResponse(request[1].query, FinalAnswer(messages), work, steps)
    /\ request' = None
    /\ Forget
    /\ UNCHANGED <<requests, admitted, handled>>
    /\ ApiFrame

\* main.py:152-160 -- the graph raised
ProcessQueryFail(errorMetric) ==
    /\ request # None
    /\ pc = "raised"
    /\ response' = Except("graph", errorMetric)
    /\ request' = None
    /\ Forget
    /\ UNCHANGED <<requests, admitted, handled>>
    /\ ApiFrame

ProcessQuery ==
    \/ \E q \in Bodies : ProcessQueryEmpty(q)
    \/ \E q \in Bodies : ProcessQueryLimited(q, "s1")
    \/ \E q \in Bodies : ProcessQueryRun(q, "s1")
    \/ \E metrics \in MetricsFaults, errorMetric \in MetricsFaults :
           ProcessQueryReturn(metrics, errorMetric)
    \/ \E errorMetric \in MetricsFaults : ProcessQueryFail(errorMetric)

\* The limiter has served no request of the session, or ten in the open window.
ApiInit ==
    /\ LoopInit
    /\ CacheIdle
    /\ \E n \in {0, LIMIT} :
        /\ requests = IF n = 0 THEN [u \in {} |-> None]
                      ELSE [u \in {"s1"} |-> [start |-> 0, count |-> n]]
        /\ admitted = [u \in Sessions |-> IF u = "s1" THEN [i \in 1..n |-> 0] ELSE <<>>]
    /\ rl = [t \in {1, 2} |-> [pc |-> "idle"]]
    /\ request = None
    /\ response = None
    /\ handled = 0
    /\ RetrainIdle

ApiNext == ProcessQuery \/ LoopStep

\* Requests of one session served one after the other by POST /query.
ApiSpec == ApiInit /\ [][ApiNext]_vars

(***************************************************************************)
(* Retraining trigger: lambda/retrain_trigger.py                           *)
(***************************************************************************)

\* retrain_trigger.py:14
MAPE_THRESHOLD == 20

\* invocations of lambda_handler in one behaviour
MaxRuns == 2
\* the clock of the trigger stops here
MaxClock == 3
\* objects uploaded under bronze/
MaxFiles == 2

\* metrics.get("mape") of Model/metrics.json: None when the file or the key
\* is missing, else the number the training job wrote
Mapes == {None, Some(0), Some(15), Some(20), Some(25)}
\* the mean of y over the new CSV files, None when they hold no y value
Means == {None, Some(0), Some(100), Some(200)}

\* Python's truth value of None or of a number
Truthy(x) == x # None /\ x[1] # 0

\* the CSV files under bronze/ modified after `since`
NewCsv(b, since) == {f \in b.bronze : f.csv /\ f.modified > since}

\* retrain_trigger.py:64-75 -- has_new_data(); fault names the S3 call that
\* raises, if any: a missing Model/last_trained.json makes get_object raise
has_new_data(b, fault) ==
    IF b.last_trained = None \/ fault \in {"get_last_trained", "list_bronze"}
    THEN TRUE
    ELSE NewCsv(b, b.last_trained[1].trained_at) # {}

\* retrain_trigger.py:24-40 -- get_new_data_stats(): the record of the last
\* training is read again, and every CSV file counts when it cannot be read
NewMeans(b) == IF \E f \in b.bronze : f.csv THEN Means ELSE {None}

\* retrain_trigger.py:51-55 -- is_drift, DRIFT_THRESHOLD = 0.5
is_drift(new_mean, old_mean) ==
    IF ~Truthy(old_mean) \/ ~Truthy(new_mean) THEN FALSE
    ELSE LET d == new_mean[1] - old_mean[1]
         IN 2 * (IF d < 0 THEN -d ELSE d) > old_mean[1]

\* retrain_trigger.py:43-48, 87-88 -- old_y_mean of statistics/latest.json
OldMean(b) == IF b.stats = None THEN None ELSE Some(b.stats[1].y_mean)

\* retrain_trigger.py:135
Approval(mape) ==
    IF Truthy(mape) /\ mape[1] < MAPE_THRESHOLD THEN "Approved"
    ELSE "PendingManualApproval"

\* an exception leaves lambda_handler: the invocation ends in an error
Raised(at) == Some([status |-> "raised", at |-> at])

RetrainFrame ==
    /\ UNCHANGED loopVars
    /\ UNCHANGED cacheVars
    /\ UNCHANGED apiVars

\* the invocation ends with an exception raised by the call `at`
LambdaRaises(at) ==
    /\ lpc' = "idle"
    /\ handler' = None
    /\ returned' = Raised(at)

StartFaults == {"none", "get_last_trained", "list_bronze", "get_new_data_stats", "alert"}

\* retrain_trigger.py:78-99 -- lambda_handler up to the drift alert. ts names
\* the invocation: invocations are more than a second apart.
LambdaStart(fault) ==
    /\ lpc = "idle"
    /\ runs < MaxRuns
    /\ runs' = runs + 1
    /\ IF ~has_new_data(bucket, fault)
       THEN /\ fault = "none"
            /\ returned' = Some([status |-> "skipped", reason |-> "no_new_data"])
            /\ UNCHANGED <<lpc, handler>>
       ELSE IF fault = "get_new_data_stats"
       THEN LambdaRaises(fault)
       ELSE \E mean \in NewMeans(bucket) :
              IF fault = "alert"
              THEN /\ is_drift(mean, OldMean(bucket))
                   /\ LambdaRaises(fault)
              ELSE /\ fault = "list_bronze" => bucket.last_trained # None
                   /\ lpc' = "train"
                   /\ handler' = Some([ts |-> runs', new_y_mean |-> mean,
                                       mape |-> None, approval |-> "none"])
                   /\ returned' = None
    /\ UNCHANGED <<bucket, sagemaker, clock>>
    /\ RetrainFrame

\* retrain_trigger.py:101-116 -- the package group is created if missing
\* (its failure is passed over) and the training job is started
StartTraining(fault) ==
    /\ lpc = "train"
    /\ IF fault = "create_training_job"
       THEN /\ LambdaRaises(fault)
            /\ UNCHANGED sagemaker
       ELSE /\ sagemaker' = [sagemaker EXCEPT !.jobs = @ \cup {handler[1].ts}]
            /\ lpc' = "wait"
            /\ UNCHANGED <<handler, returned>>
    /\ UNCHANGED <<bucket, clock, runs>>
    /\ RetrainFrame

\* retrain_trigger.py:118-127 -- the poll that finds the training job ended;
\* while the job is in progress the handler sleeps and time passes
WaitTraining(status, fault) ==
    /\ lpc = "wait"
    /\ IF fault = "describe_training_job"
       THEN LambdaRaises(fault)
       ELSE IF status \in {"Failed", "Stopped"}
       THEN /\ lpc' = "idle"
            /\ handler' = None
            /\ returned' = Some([status |-> "failed", job |-> handler[1].ts])
       ELSE /\ lpc' = "register"
            /\ UNCHANGED <<handler, returned>>
    /\ UNCHANGED <<bucket, sagemaker, clock, runs>>
    /\ RetrainFrame

\* The call that `fault` makes raise is one the registration reaches.
RegisterReaches(mape, fault) ==
    CASE fault = "publish" -> Approval(mape) = "PendingManualApproval"
      [] fault = "put_metrics" -> Truthy(mape)
      [] OTHER -> TRUE

\* retrain_trigger.py:129-188 -- the metrics are read (a failure reads as no
\* metrics), the approval is decided and the model package is registered
Register(mape, fault) ==
    /\ lpc = "register"
    /\ RegisterReaches(mape, fault)
    /\ IF fault # "none"
       THEN /\ LambdaRaises(fault)
            /\ UNCHANGED sagemaker
       ELSE /\ sagemaker' = [sagemaker EXCEPT !.packages =
                               Append(@, [approval |-> Approval(mape),
                                          mape |-> mape,
                                          by |-> handler[1].ts])]
            /\ handler' = Some([handler[1] EXCEPT !.mape = mape,
                                                  !.approval = Approval(mape)])
            /\ lpc' = IF Approval(mape) = "Approved" THEN "deploy" ELSE "save"
            /\ UNCHANGED returned
    /\ UNCHANGED <<bucket, clock, runs>>
    /\ RetrainFrame

\* retrain_trigger.py:190-202 -- create_model, create_endpoint_config, then
\* update_endpoint if the endpoint exists, create_endpoint if not
Deploy(fault) ==
    /\ lpc = "deploy"
    /\ LET ts == handler[1].ts
       IN IF fault = "create_model"
          THEN /\ LambdaRaises(fault)
               /\ UNCHANGED sagemaker
          ELSE IF fault = "create_endpoint_config"
          THEN /\ LambdaRaises(fault)
               /\ sagemaker' = [sagemaker EXCEPT !.models = @ \cup {ts}]
          ELSE IF fault = "endpoint"
          THEN /\ LambdaRaises(fault)
               /\ sagemaker' = [sagemaker EXCEPT !.models = @ \cup {ts},
                                                 !.configs = @ \cup {ts}]
          ELSE /\ sagemaker' = [sagemaker EXCEPT !.models = @ \cup {ts},
                                                 !.configs = @ \cup {ts},
                                                 !.endpoint = Some(ts)]
               /\ lpc' = "save"
               /\ UNCHANGED <<handler, returned>>
    /\ UNCHANGED <<bucket, clock, runs>>
    /\ RetrainFrame

\* retrain_trigger.py:204-211 -- the record of the training and the
\* statistics are written and the handler returns
Save(fault) ==
    /\ lpc = "save"
    /\ LET h == handler[1]
           record == Some([trained_at |-> clock, mape |-> h.mape,
                           approval |-> h.approval])
       IN IF fault = "put_last_trained"
          THEN /\ LambdaRaises(fault)
               /\ UNCHANGED bucket
          ELSE IF fault = "save_stats"
          THEN /\ Truthy(h.new_y_mean)
               /\ LambdaRaises(fault)
               /\ bucket' = [bucket EXCEPT !.last_trained = record]
          ELSE /\ bucket' = [bucket EXCEPT
                               !.last_trained = record,
                               !.stats = IF Truthy(h.new_y_mean)
                                         THEN Some([version |-> h.ts,
                                                    y_mean |-> h.new_y_mean[1]])
                                         ELSE @]
               /\ lpc' = "idle"
               /\ handler' = None
               /\ returned' = Some([status |-> "success", job |-> h.ts,
                                    mape |-> h.mape, approval |-> h.approval,
                                    deployed |-> (h.approval = "Approved")])
    /\ UNCHANGED <<sagemaker, clock, runs>>
    /\ RetrainFrame

\* retrain_trigger.py:78-211 -- lambda_handler(event, context)
LambdaHandler ==
    \/ \E fault \in StartFaults : LambdaStart(fault)
    \/ \E fault \in {"none", "create_training_job"} : StartTraining(fault)
    \/ \E status \in {"Completed", "Failed", "Stopped"},
          fault \in {"none", "describe_training_job"} : WaitTraining(status, fault)
    \/ \E mape \in Mapes,
          fault \in {"none", "publish", "put_metrics", "create_model_package"} :
            Register(mape, fault)
    \/ \E fault \in {"none", "create_model", "create_endpoint_config", "endpoint"} :
            Deploy(fault)
    \/ \E fault \in {"none", "put_last_trained", "save_stats"} : Save(fault)

\* An object is put under bronze/: a CSV file or something else.
Upload ==
    /\ Cardinality(bucket.bronze) < MaxFiles
    /\ \E csv \in BOOLEAN :
        /\ [csv |-> csv, modified |-> clock] \notin bucket.bronze
        /\ bucket' = [bucket EXCEPT !.bronze = @ \cup {[csv |-> csv, modified |-> clock]}]
    /\ UNCHANGED <<lpc, sagemaker, handler, returned, clock, runs>>
    /\ RetrainFrame

\* Time passes.
Pass ==
    /\ clock < MaxClock
    /\ clock' = clock + 1
    /\ UNCHANGED <<lpc, bucket, sagemaker, handler, returned, runs>>
    /\ RetrainFrame

RetrainNext == LambdaHandler \/ Upload \/ Pass

\* The trigger invoked again and again while objects arrive under bronze/.
RetrainSpec == Init /\ [][RetrainNext]_vars

(***************************************************************************)
(* Properties of the orchestration loop                                    *)
(***************************************************************************)

Running == {"orchestrator", "forecasting", "rag", "db"}

\* C1: in every reachable session state of one invocation 0 <= steps <= 5,
\* whatever the reasoning engine decides and whatever the capability nodes
\* return.
C1_StepsBounded == 0 <= steps /\ steps <= 5

\* The engine never returned FINISH and the step is entered at the bound.
C1_Witness == pc = "orchestrator" /\ steps = 5 /\ llmCalls = 5

\* C2: every invocation eventually reaches a terminal outcome (a FINISH
\* decision or the step bound) provided each engine call and each capability
\* call returns; a call that raises ends the invocation with the exception.
C2_Terminates ==
    [](pc \in Running =>
        <>(\/ pc = "end" /\ outcome \in {"finish", "step_bound"}
           \/ pc = "raised"))

\* The invocation ended by the step bound after five delegations.
C2_Witness ==
    /\ pc = "end"
    /\ outcome = "step_bound"
    /\ Len(messages) = 2 * 5 + 2

\* C3: a step entered with steps >= 5 makes no engine call, appends only the
\* stop notice and returns work and steps unchanged; so the loop halts at
\* steps = 5 and at most 5 engine calls are issued in one invocation.
C3_StopAtBound ==
    /\ [][(pc = "orchestrator" /\ steps >= 5) =>
            /\ llmCalls' = llmCalls
            /\ messages' = Append(messages, AIMessage(<<STOP_NOTICE>>))
            /\ work' = work
            /\ steps' = steps
            /\ pc' = "end"]_vars
    /\ [](llmCalls <= 5)
    /\ [](outcome = "step_bound" => steps = 5 /\ llmCalls = 5)

\* Five delegations were made and the sixth step returned the notice.
C3_Witness ==
    /\ outcome = "step_bound"
    /\ llmCalls = 5
    /\ messages[Len(messages)] = AIMessage(<<STOP_NOTICE>>)
    /\ Cardinality(DOMAIN work) = 3

\* C4: in every reachable state of the step/dispatch cycle (so after every
\* orchestrator step) work holds at most one of next_forecasting_payload,
\* next_rag_query and next_db_query.
C4_OnePending == Cardinality(Pending(work)) <= 1

\* A marker written by a step that follows an earlier dispatch.
C4_Witness ==
    /\ Cardinality(Pending(work)) = 1
    /\ (DOMAIN work) \cap ResultKeys # {}
    /\ pc \in {"forecasting", "rag", "db"}

(***************************************************************************)
(* Properties of the semantic cache                                        *)
(***************************************************************************)

\* The least distance between `query` and a document of docs.
MinScore(query, docs) ==
    LET scores == {Score(query, docs[i].page_content) : i \in 1..Len(docs)}
    IN CHOOSE m \in scores : \A x \in scores : m <= x

\* The keys of the documents of docs at that least distance.
NearestKeys(query, docs) ==
    {docs[i].cache_key : i \in {k \in 1..Len(docs) :
        Score(query, docs[k].page_content) = MinScore(query, docs)}}

\* C5: a lookup that does not fail returns a hit exactly when the index has
\* an entry, the similarity (1 - distance) of the nearest entry is >= 0.92
\* and that entry's record is in the table; the hit carries the stored
\* answer. So 0.95 with the record present is a hit, 0.80 a miss, and exactly
\* 0.92 a hit.
C5_HitIffSimilar ==
    (last.op = "lookup" /\ ~last.result.failed) =>
        LET r == last.result
            near == IF Entries = <<>> THEN {} ELSE NearestKeys(last.query, Entries)
        IN /\ r.hit <=> /\ Entries # <<>>
                        /\ 100 - MinScore(last.query, Entries) >= 92
                        /\ near \subseteq DOMAIN table
           /\ r.hit => /\ r.similarity = 100 - MinScore(last.query, Entries)
                       /\ r.similarity >= 92
                       /\ \A k \in near : r.answer = table[k].answer
           /\ (Entries # <<>> /\ MinScore(last.query, Entries) = 20) => ~r.hit
           /\ (Entries # <<>> /\ MinScore(last.query, Entries) \in {5, 8}
                 /\ near \subseteq DOMAIN table) => r.hit

\* A hit at a similarity of exactly 0.92.
C5_Witness ==
    /\ last.op = "lookup"
    /\ last.result.hit
    /\ last.result.similarity = 92

\* C6: save_to_cache(q, a, ctx, src) that runs alone and without a failure,
\* followed at once by a check_cache(q) that does not fail, gives a hit with
\* answer a and sources src (the empty list when src was left out), whatever
\* the cache held before.
C6_RoundTrip ==
    (last.op = "lookup" /\ last.fault = "none" /\ last.before.kind = "insert_same") =>
        /\ last.result.hit
        /\ last.result.answer = last.before.answer
        /\ last.result.sources =
              (IF last.before.sources = None THEN <<>> ELSE last.before.sources[1])

\* The round trip on an index that already held another entry, with a
\* source list given.
C6_Witness ==
    /\ last.op = "lookup"
    /\ last.fault = "none"
    /\ last.before.kind = "insert_same"
    /\ last.before.sources # None
    /\ last.result.hit
    /\ Len(Entries) >= 2

C8_ExpiredIsAbsent ==
    (last.op = "lookup" /\ last.result.hit) => now < last.result.ttl

\* C9: a failure inside check_cache gives a miss, a failure inside
\* save_to_cache is swallowed; neither raises to its caller.
C9_FailOpen ==
    /\ last.op = "lookup" =>
        /\ ~last.result.raised
        /\ (last.fault # "none" => ~last.result.hit /\ last.result.failed)
    /\ last.op = "insert" => ~last.raised

\* The table read failed on a lookup that would have been a hit.
C9_Witness ==
    /\ last.op = "lookup"
    /\ last.fault = "get_item"
    /\ last.result.failed
    /\ ~last.result.hit
    /\ Entries # <<>>
    /\ NearestKeys(last.query, Entries) \subseteq DOMAIN table

\* C10: after any interleaving of save_to_cache calls that completed without
\* a failure, the persisted index, and the in-memory index when loaded, hold
\* the entry of each of them.
C10_NoLostEntry ==
    \A doc \in completed :
        /\ disk # None /\ InSeq(doc, disk[1])
        /\ faiss # None => InSeq(doc, faiss[1])

\* The keys the entries of docs refer to.
IndexedKeys(docs) == {docs[i].cache_key : i \in 1..Len(docs)}

\* C11: a lookup whose nearest index entry is within the threshold but refers
\* to a key the table does not hold returns none (a miss, no exception); and
\* a hit never returns a record of the table that no index entry refers to.
C11_DanglingIsMiss ==
    (last.op = "lookup" /\ last.fault = "none") =>
        LET r == last.result
        IN /\ ~r.raised
           /\ (/\ Entries # <<>>
               /\ NearestKeys(last.query, Entries) \cap DOMAIN table = {})
                 => (~r.hit /\ ~r.failed)
           /\ r.hit =>
                 /\ get_cache_key(r.similar_query) \in IndexedKeys(Entries)
                 /\ get_cache_key(r.similar_query) \in DOMAIN table
                 /\ r.answer = table[get_cache_key(r.similar_query)].answer
                 /\ \A k \in (DOMAIN table) \ IndexedKeys(Entries) :
                        get_cache_key(r.similar_query) # k

\* The nearest entry is within the threshold, its record has expired out of
\* the table, and the table holds a record that was never indexed.
C11_Witness ==
    /\ last.op = "lookup"
    /\ last.fault = "none"
    /\ Entries # <<>>
    /\ 100 - MinScore(last.query, Entries) >= 92
    /\ NearestKeys(last.query, Entries) \cap DOMAIN table = {}
    /\ (DOMAIN table) \ IndexedKeys(Entries) # {}
    /\ ~last.result.hit

\* C12: in every reachable state every entry of the index, in memory and
\* persisted, refers to a key that the table holds.
C12_Referential ==
    /\ (faiss # None => IndexedKeys(faiss[1]) \subseteq DOMAIN table)
    /\ (disk # None => IndexedKeys(disk[1]) \subseteq DOMAIN table)

(***************************************************************************)
(* Properties of the orchestrator step and of the capability nodes         *)
(***************************************************************************)

\* The step just taken is an orchestrator step that returned by `branch`.
Returned(branch) == pc = "orchestrator" /\ outcome' = branch

\* C13: a non-FINISH decision writes the pending marker of its action, with
\* the payload of the decision when one was supplied and else the default:
\* {horizon_days: 2} for a forecast without payload, the literal fallback
\* query for a retrieval or structured-data decision whose query is missing
\* or empty; it writes nothing else into work.
C13_MarkerOrDefault ==
    [][Returned("delegate") =>
        LET action  == decision'[1].action
            payload == decision'[1].forecasting_payload
            rag     == decision'[1].rag_query
            db      == decision'[1].db_query
            key == CASE action = "CALL_FORECASTING" -> "next_forecasting_payload"
                     [] action = "CALL_RAG" -> "next_rag_query"
                     [] action = "CALL_DB" -> "next_db_query"
            val == CASE action = "CALL_FORECASTING" ->
                            IF payload = None THEN [horizon_days |-> 2] ELSE payload[1]
                     [] action = "CALL_RAG" ->
                            IF rag = None \/ rag = <<"">>
                            THEN "What information do you need?" ELSE rag[1]
                     [] action = "CALL_DB" ->
                            IF db = None \/ db = <<"">>
                            THEN "Get ticket count from today till 2 days" ELSE db[1]
        IN /\ action \in {"CALL_FORECASTING", "CALL_RAG", "CALL_DB"}
           /\ DOMAIN work' = (DOMAIN work) \cup {key}
           /\ work'[key] = val
           /\ \A k \in (DOMAIN work) \ {key} : work'[k] = work[k]]_vars

\* A retrieval decision with an empty query was given the fallback query.
C13_Witness ==
    /\ outcome = "delegate"
    /\ pc = "rag"
    /\ decision # None
    /\ decision[1].action = "CALL_RAG"
    /\ decision[1].rag_query = <<"">>
    /\ work["next_rag_query"] = "What information do you need?"

\* C14: a FINISH decision appends two assistant messages, the first carrying
\* the reasoning and the last one the final_answer, or "Finished." when
\* final_answer is missing or empty; it adds 1 to steps, leaves work as it
\* was and writes no pending marker.
C14_Finish ==
    [][Returned("finish") =>
        LET d == decision'[1]
            n == Len(messages)
        IN /\ d.action = "FINISH"
           /\ Len(messages') = n + 2
           /\ SubSeq(messages', 1, n) = messages
           /\ messages'[n + 1].role = "ai"
           /\ messages'[n + 1].content[3] =
                 (IF d.reasoning = None \/ d.reasoning = <<"">>
                  THEN "N/A" ELSE d.reasoning[1])
           /\ messages'[n + 2] =
                 [role |-> "ai",
                  content |-> <<IF d.final_answer = None \/ d.final_answer = <<"">>
                                THEN "Finished." ELSE d.final_answer[1]>>]
           /\ steps' = steps + 1
           /\ work' = work
           /\ Pending(work') = {}]_vars

\* FINISH with an empty final_answer, after a capability has delivered.
C14_Witness ==
    /\ outcome = "finish"
    /\ decision # None
    /\ decision[1].final_answer = <<"">>
    /\ messages[Len(messages)] = AIMessage(<<"Finished.">>)
    /\ "rag_result" \in DOMAIN work
    /\ steps = 2

CapabilityNodes == {"forecasting", "rag", "db"}

\* C15 as stated: every call of the orchestrator step that returns gives
\* steps equal to its input steps plus 1, and no capability node changes
\* steps.
C15_EveryCallAddsOne ==
    [][/\ (pc = "orchestrator" /\ outcome' # "raised") => steps' = steps + 1
       /\ pc \in CapabilityNodes => steps' = steps]_vars

\* C15, amended: every call of the orchestrator step that handles a decision
\* (FINISH or a delegation, so entered with steps < 5) returns its input
\* steps plus 1; the call entered with steps >= 5 returns steps unchanged,
\* as does a call that raises; no capability node changes steps.
C15_DecisionAddsOne ==
    [][/\ (Returned("finish") \/ Returned("delegate")) =>
            (steps < 5 /\ steps' = steps + 1)
       /\ (Returned("step_bound") \/ Returned("raised")) => steps' = steps
       /\ pc \in CapabilityNodes => steps' = steps]_vars

\* Three decisions and two capability calls: the counter stands at 3.
C15_Witness ==
    /\ outcome = "finish"
    /\ steps = 3
    /\ llmCalls = 3
    /\ {"forecast_result", "db_result"} \subseteq DOMAIN work

\* The pending marker and the result marker of the capability node at pc.
MarkerOf(node) ==
    CASE node = "forecasting" -> "next_forecasting_payload"
      [] node = "rag" -> "next_rag_query"
      [] node = "db" -> "next_db_query"
ResultOf(node) ==
    CASE node = "forecasting" -> "forecast_result"
      [] node = "rag" -> "rag_result"
      [] node = "db" -> "db_result"

\* work after `node` has delivered: its marker gone, its result marker
\* holding the result the node reported, every other key as before.
Delivered(node, before, after, msgs) ==
    /\ MarkerOf(node) \notin DOMAIN after
    /\ ResultOf(node) \in DOMAIN after
    /\ after[ResultOf(node)] = msgs[Len(msgs)].content[3]
    /\ DOMAIN after = ((DOMAIN before) \ {MarkerOf(node)}) \cup {ResultOf(node)}
    /\ \A k \in (DOMAIN before) \ {MarkerOf(node), ResultOf(node)} : after[k] = before[k]

\* C16: after a capability node has run, its pending marker is absent from
\* work, its result marker holds the adapter's result, steps is unchanged and
\* every other key of work is unchanged.
C16_NodeFrame ==
    [][(pc \in CapabilityNodes) =>
        /\ Delivered(pc, work, work', messages')
        /\ Len(messages') = Len(messages) + 1
        /\ steps' = steps]_vars

\* The capability node a delegation names.
NodeOf(action) ==
    CASE action = "CALL_FORECASTING" -> "forecasting"
      [] action = "CALL_RAG" -> "rag"
      [] action = "CALL_DB" -> "db"

Ended == outcome \in {"finish", "step_bound"}

\* C18: both end states are terminal: once a FINISH decision has been handled
\* or the step bound has been hit, the invocation is over (no node is
\* scheduled, no marker is pending), and the only step that follows is the
\* start of a new invocation: no engine call, marker write or dispatch of
\* the ended one.
C18_EndIsTerminal ==
    /\ [](Ended => (pc = "end" /\ Pending(work) = {}))
    /\ [][Ended =>
            /\ messages' = <<HumanMessage(<<"query">>)>>
            /\ work' = EmptyWork
            /\ steps' = 0
            /\ llmCalls' = 0
            /\ ~Ended']_vars

\* An invocation that ended by FINISH after one delegation.
C18_Witness ==
    /\ Ended
    /\ outcome = "finish"
    /\ pc = "end"
    /\ llmCalls = 2
    /\ (DOMAIN work) \cap ResultKeys # {}

C20_EngineFailureNonFatal ==
    [][(pc = "orchestrator") =>
        /\ pc' # "raised"
        /\ outcome' \in {"finish", "delegate", "step_bound"}]_vars

\* what the orchestrator step that made decision d handed to the capability
\* of d: the payload of the decision, or the default when it has none
Handed(d) ==
    CASE d.action = "CALL_FORECASTING" ->
            ForecastPayload(OrPayload(d.forecasting_payload, DEFAULT_FORECAST_PAYLOAD))
      [] d.action = "CALL_RAG" -> OrStr(d.rag_query, DEFAULT_RAG_QUERY)
      [] d.action = "CALL_DB" -> OrStr(d.db_query, DEFAULT_DB_QUERY)

\* the default of the node, read from a work map without its marker
NodeDefault(node) ==
    CASE node = "forecasting" ->
            ForecastPayload(Get(EmptyWork, MarkerOf(node), DEFAULT_FORECAST_PAYLOAD))
      [] node = "rag" -> Get(EmptyWork, MarkerOf(node), DEFAULT_RAG_QUERY)
      [] node = "db" -> Get(EmptyWork, MarkerOf(node), DEFAULT_DB_QUERY)

\* C30: the payload a capability node passes to its adapter is the value the
\* orchestrator step right before it wrote under the node's pending marker;
\* the node takes the default only when the marker is absent, and it is the
\* default the orchestrator writes for a decision without payload.
C30_PayloadIsMarker ==
    [][(pc \in CapabilityNodes) =>
        /\ decision # None
        /\ NodeOf(decision[1].action) = pc
        /\ MarkerOf(pc) \in DOMAIN work
        /\ work[MarkerOf(pc)] = NewWork(EmptyWork, decision[1])[MarkerOf(pc)]
        /\ called'[1].payload = Handed(decision[1])
        /\ (called'[1].payload = NodeDefault(pc)) =>
                Handed(decision[1]) = NodeDefault(pc)
        /\ \A d \in RelevantDecisions :
                (d.action = decision[1].action /\ d.forecasting_payload = None
                    /\ d.rag_query = None /\ d.db_query = None)
                => Handed(d) = NodeDefault(pc)
      ]_vars

\* the retrieval node passed on the query the decision named, which is not
\* the default
C30_Witness ==
    /\ called # None
    /\ called[1].agent = "rag"
    /\ "payload" \in DOMAIN called[1]
    /\ decision # None
    /\ decision[1].action = "CALL_RAG"
    /\ decision[1].rag_query # None
    /\ called[1].payload = decision[1].rag_query[1]
    /\ called[1].payload # DEFAULT_RAG_QUERY
    /\ pc = "orchestrator"

\* key k of work is in work after the step, with the same value
Kept(k) == k \in DOMAIN work' /\ work'[k] = work[k]

\* C31: result markers are not lost during an invocation: an orchestrator
\* step (FINISH, delegation or step bound) leaves every result marker of
\* work as it is, and a capability node changes only its own result marker
\* and its own pending marker; the result of one capability stays until the
\* same capability runs again.
C31_ResultsKept ==
    [][/\ (pc = "orchestrator") =>
            \A k \in (DOMAIN work) \cap ResultKeys : Kept(k)
       /\ (pc \in CapabilityNodes) =>
            /\ \A k \in (DOMAIN work) \ {MarkerOf(pc), ResultOf(pc)} : Kept(k)
            /\ (DOMAIN work') \ (DOMAIN work) \subseteq {ResultOf(pc)}
      ]_vars

\* the retrieval result is still in work after a later delegation to the
\* forecasting capability has delivered, and after the decision that followed
C31_Witness ==
    /\ pc = "end"
    /\ outcome = "finish"
    /\ {"rag_result", "forecast_result"} \subseteq DOMAIN work
    /\ called # None
    /\ called[1].agent = "forecasting"
    /\ steps = 3

(***************************************************************************)
(* Properties of the entry point                                           *)
(***************************************************************************)

\* a step in which POST /query sends its response
Responds ==
    \/ request = None /\ handled' = handled + 1 /\ request' = None
    \/ request # None /\ request' = None

ErrorFields == {"kind", "status", "detail"}
SuccessFields == {"kind", "status", "query", "answer", "work", "steps"}

\* C21: an exception raised while the loop runs becomes the one failure
\* response, HTTP 500 with a message. A request ends in exactly one of: 400
\* (empty query), 429 (rate limit), success with answer, work and steps, or
\* the 500 failure; nothing is sent before the end, and a failure carries no
\* answer, work or steps.
C21_OneOutcome ==
    [][/\ Responds =>
            /\ response' # None
            /\ response'[1].status \in {400, 429, 200, 500}
            /\ (response'[1].status = 200) => DOMAIN response'[1] = SuccessFields
            /\ (response'[1].status # 200) => DOMAIN response'[1] = ErrorFields
            /\ (response'[1].status = 200) => pc = "end"
            /\ (pc = "raised") => response'[1].status = 500
            /\ (response'[1].status \in {400, 429}) => request = None /\ UNCHANGED loopVars
       /\ (request' # None) => response' = None
      ]_vars

\* the loop raised and the request was answered with the failure naming it
C21_Witness == response = Failure("graph")

\* the admissions of session u on the log that fall in its open window
InWindow(u) ==
    {i \in 1..Len(admitted[u]) : admitted[u][i] >= requests[u].start}

\* C22: per session id, at most 10 requests are admitted in one fixed window,
\* which opens at the first admitted request and lasts 60 seconds (later
\* requests of the window get 429 and leave the counter alone, the first
\* request after it opens a new window with count 1, sessions do not touch
\* each other's account).
C22_WindowQuota ==
    \A u \in DOMAIN requests : Cardinality(InWindow(u)) <= LIMIT

\* C29: for every session id and every 60-second interval of time, wherever
\* it starts, at most 10 requests of the session are admitted within it.
C29_AnyInterval ==
    \A u \in Sessions :
        Cardinality({i \in 1..Len(admitted[u]) : now - admitted[u][i] < WINDOW}) <= LIMIT

\* C26: each accepted query starts the loop from steps = 0, an empty work
\* map and the query as the only new user message; the returned answer is
\* the content of the last message of the final state -- the final_answer
\* (or "Finished.") after FINISH, the stop notice after the step bound --
\* and the returned steps and work are those of the final state.
C26_FreshStartFinalState ==
    [][/\ (request = None /\ request' # None) =>
            /\ Strip(request'[1].query) # ""
            /\ pc' = "orchestrator"
            /\ steps' = 0
            /\ work' = EmptyWork
            /\ messages' = <<HumanMessage(<<request'[1].query>>)>>
       /\ (request # None /\ request' = None /\ response'[1].status = 200) =>
            /\ pc = "end"
            /\ response'[1].query = request[1].query
            /\ response'[1].answer = messages[Len(messages)].content
            /\ outcome \in {"finish", "step_bound"}
            /\ (outcome = "finish") =>
                    response'[1].answer =
                        <<OrStr(decision[1].final_answer, FINISHED_FALLBACK)>>
            /\ (outcome = "step_bound") => response'[1].answer = <<STOP_NOTICE>>
            /\ response'[1].steps = steps
            /\ response'[1].work = work
      ]_vars

\* the second request of the session ran into the step bound and was
\* answered with the stop notice, five steps and the results gathered
C26_Witness ==
    /\ handled = 2
    /\ response # None
    /\ response[1].status = 200
    /\ response[1].answer = <<STOP_NOTICE>>
    /\ response[1].steps = MAX_STEPS
    /\ response[1].work # EmptyWork
    /\ requests["s1"].count = 2

(***************************************************************************)
(* Properties of the retrieval adapter                                     *)
(***************************************************************************)

\* a step in which rag_agent runs and returns
RagReturns == last'.op = "rag"

\* rag_agent answered from the cache: the answer and sources of the lookup,
\* cached = true, no other call made, no store written
AnsweredFromCache(c) ==
    /\ c.result = [agent |-> "rag_agent", query |-> c.query,
                   answer |-> c.lookup.answer, sources |-> c.lookup.sources,
                   cached |-> TRUE]
    /\ c.trace = <<"check_cache">>
    /\ UNCHANGED <<table, disk>>

\* rag_agent ran retrieval and generation, called the insert with the answer
\* and returned it with cached = false
AnsweredByPipeline(c) ==
    /\ InSeq("similarity_search", c.trace)
    /\ InSeq("chain.invoke", c.trace)
    /\ c.trace[Len(c.trace)] = "save_to_cache"
    /\ "cached" \in DOMAIN c.result
    /\ c.result.cached = FALSE
    /\ c.result.answer \in Answers
    /\ (c.save # "put_item") =>
            /\ get_cache_key(c.query) \in DOMAIN table'
            /\ table'[get_cache_key(c.query)].answer = c.result.answer

LiveNeighbours(query) ==
    {i \in 1..Len(Entries) :
        /\ i # Nearest(query, Entries)
        /\ Similarity(Score(query, Entries[i].page_content)) >= SIMILARITY_THRESHOLD
        /\ Entries[i].cache_key \in DOMAIN table
        /\ table[Entries[i].cache_key].ttl > now}

\* C34: a lookup considers only the single nearest entry of the index: when
\* the table holds no record under that entry's key the lookup is a miss,
\* also when another entry within the threshold has a live record, and a hit
\* is always the nearest entry's record; the lookup removes no entry.
C34_NearestOnly ==
    /\ []((last.op = "lookup" /\ last.fault = "none" /\ Entries # <<>>) =>
            LET doc == Entries[Nearest(last.query, Entries)]
                r   == last.result
            IN /\ doc.cache_key \notin DOMAIN table => (~r.hit /\ ~r.failed /\ ~r.raised)
               /\ r.hit =>
                    /\ r.similar_query = doc.page_content
                    /\ r.answer = table[doc.cache_key].answer
                    /\ r.similarity = Similarity(Score(last.query, doc.page_content)))
    /\ [][last'.op = "lookup" =>
            /\ Entries' = Entries
            /\ disk' = disk
            /\ faiss # None => faiss' = faiss]_vars

\* A lookup missed on a nearest entry whose record has expired out of the
\* table while another entry within the threshold has a live record; the
\* stale entry is still in the index, in memory and persisted.
C34_Witness ==
    /\ last.op = "lookup"
    /\ last.fault = "none"
    /\ Entries # <<>>
    /\ Entries[Nearest(last.query, Entries)].cache_key \notin DOMAIN table
    /\ LiveNeighbours(last.query) # {}
    /\ ~last.result.hit
    /\ faiss # None /\ disk = faiss

\* answers that report a failure instead of answering
NonAnswers == {"Error", NO_DOCUMENTS}

\* C33: rag_agent inserts into the cache only after a full pipeline run that
\* produced an answer: nothing is inserted on a cache hit, when no document
\* store is available, or when the pipeline raised; an error answer or the
\* "No documents loaded" answer is never stored and never served as a hit.
C33_OnlyAnswersCached ==
    [][RagReturns =>
        LET c == called'[1]
        IN /\ (c.save # "not called") <=>
                (~c.lookup.hit /\ c.store \in {"loaded", "created"} /\ c.fault = "none")
           /\ (c.save # "not called") =>
                /\ InSeq("similarity_search", c.trace)
                /\ InSeq("chain.invoke", c.trace)
                /\ c.result.answer \in Answers
           /\ (c.save = "not called") => UNCHANGED <<table, disk, inserts, completed>>
           /\ \A k \in DOMAIN table' : table'[k].answer \notin NonAnswers
           /\ c.lookup.hit => c.result.answer \notin NonAnswers
      ]_vars

\* a query was answered with an error after the generation call raised, and
\* nothing is stored for it although other answers are stored
C33_Witness ==
    /\ called # None
    /\ called[1].agent = "rag"
    /\ "trace" \in DOMAIN called[1]
    /\ called[1].fault = "chain.invoke"
    /\ called[1].result.answer = "Error"
    /\ get_cache_key(called[1].query) \notin DOMAIN table
    /\ DOMAIN table # {}

(***************************************************************************)
(* Further properties of the response cache                                *)
(***************************************************************************)

\* a step in which save_to_cache has written its record
Puts == tpc[1] = "idle" /\ tpc'[1] = "index"

\* C24: the record is stored under a fingerprint of the case-folded, trimmed
\* query: queries equal after case-folding and trimming have the same key, a
\* second insert under the key replaces the first record, so the table holds
\* at most one record per normalized query, the most recently inserted one.
C24_OneRecordPerQuery ==
    [][Puts =>
        LET a == targ'[1][1]
            k == get_cache_key(a.query)
        IN /\ k \in DOMAIN table'
           /\ table'[k].query = a.query
           /\ table'[k].answer = a.answer
           /\ \A q \in Queries :
                LowerStrip(q) = LowerStrip(a.query) <=> get_cache_key(q) = k
           /\ \A k1, k2 \in DOMAIN table' :
                LowerStrip(table'[k1].query) = LowerStrip(table'[k2].query) => k1 = k2
           /\ \A k2 \in DOMAIN table' \ {k} : k2 \in DOMAIN table /\ table'[k2] = table[k2]
      ]_vars

\* "What is NET_500?" was inserted, then "  what is net_500?": one record,
\* the second one
C24_Witness ==
    /\ inserts = 2
    /\ now = 0
    /\ completed = {Document(Q1), Document(Q2)}
    /\ DOMAIN table = {get_cache_key(Q1)}
    /\ table[get_cache_key(Q1)].query = Q2
    /\ last.op = "insert"
    /\ last.query = Q2

\* a step in which save_to_cache returns without having failed
InsertSucceeds == tpc[1] # "idle" /\ tpc'[1] = "idle" /\ last'.op = "insert" /\ last'.ok

\* C25: an insert that completes without failure has persisted the index
\* when it returns: the artifact holds exactly the entries of the index in
\* memory, the new one included, and a restart right after it reloads an
\* index with the same entries.
C25_PersistedAtOnce ==
    [][/\ InsertSucceeds =>
            /\ faiss' # None
            /\ disk' = faiss'
            /\ InSeq(Document(last'.query), disk'[1])
       /\ (last.op = "insert" /\ last.ok /\ last'.op = "restart") =>
            /\ faiss' = None
            /\ LoadedIndex(faiss', disk') = faiss
      ]_vars

\* the process restarted right after two successful inserts; the artifact
\* has both entries
C25_Witness ==
    /\ last.op = "restart"
    /\ faiss = None
    /\ disk # None
    /\ Len(disk[1]) = 2
    /\ inserts = 2

\* C27: a lookup with no index in memory and no artifact returns none
\* without reading the table (whatever the table holds, and whether or not
\* it can be read), and leaves the index uninitialized.
C27_EmptyIndexIsMiss ==
    [][(last'.op = "lookup" /\ faiss = None /\ disk = None) =>
            /\ last'.result = Miss
            /\ last'.fault \notin {"search", "get_item"}
            /\ \A fault \in LookupFaults :
                    Reached(last'.query, fault) => ~(fault \in {"search", "get_item"})
            /\ faiss' = None
            /\ disk' = None
      ]_vars

\* the table holds a record of the query (its insert failed after put_item),
\* there is no index anywhere, and the lookup of the query returned none
C27_Witness ==
    /\ last.op = "lookup"
    /\ last.result = Miss
    /\ faiss = None
    /\ disk = None
    /\ get_cache_key(last.query) \in DOMAIN table

\* C28: every record written by insert has ttl = created_at + 86400 exactly,
\* also when the clock advances between the two readings of the time.
C28_ExactTtl ==
    \A k \in DOMAIN table : table[k].ttl = table[k].created_at + TTL_SECONDS

\* every entry of the index, in memory and persisted, refers to a stored key
Referential ==
    /\ (faiss # None => IndexedKeys(faiss[1]) \subseteq DOMAIN table)
    /\ (disk # None => IndexedKeys(disk[1]) \subseteq DOMAIN table)

\* a step in which the running save_to_cache, its record written, fails
FailsAfterPut ==
    tpc[1] \in {"index", "add", "save"} /\ last'.op = "insert" /\ ~last'.ok
\* a step in which the process dies inside save_to_cache, its record written
CrashesAfterPut ==
    tpc[1] \in {"index", "add", "save"} /\ last'.op = "restart"

\* the record of the running insert is stored as written, nothing is undone
StoredNotRolledBack ==
    /\ table' = table
    /\ get_cache_key(targ[1][1].query) \in DOMAIN table'
    /\ table'[get_cache_key(targ[1][1].query)].answer = targ[1][1].answer

\* `index` has an entry more than the index had when the running insert began
Grown(index) == index # None /\ Len(index[1]) > targ[1][1].entries

\* C32 as stated: the record is written before the index entry, so with no
\* expiry every index entry refers to a stored key in every state reached by
\* inserts, failures and crashes inside an insert; a failure after the write
\* of the record leaves it stored, unindexed, and not rolled back.
C32_StoredUnindexed ==
    [][/\ Referential'
       /\ (FailsAfterPut \/ CrashesAfterPut) =>
            /\ StoredNotRolledBack
            /\ ~Grown(faiss')
            /\ ~Grown(disk')
      ]_vars

\* C32, amended: with no expiry every index entry refers to a stored key in
\* every state reached by inserts, failures and crashes inside an insert; a
\* failure or crash after the write of the record leaves it stored and not
\* rolled back, and the persisted index without an entry for it. The index
\* in memory has no entry for it either, except when the failure is that of
\* persisting an index that already existed: the entry added to that index
\* stays in memory.
C32_StoredUnpersisted ==
    [][/\ Referential'
       /\ (FailsAfterPut \/ CrashesAfterPut) =>
            /\ StoredNotRolledBack
            /\ ~Grown(disk')
            /\ disk' = disk
            /\ Grown(faiss') <=> (FailsAfterPut /\ tpc[1] = "save" /\ tref[1] = "global")
            /\ Grown(faiss') =>
                    faiss'[1][Len(faiss'[1])] = Document(targ[1][1].query)
      ]_vars

\* an insert failed after its record was written: the record is stored, no
\* index has an entry for it
C32_Witness ==
    /\ last.op = "insert"
    /\ ~last.ok
    /\ get_cache_key(last.query) \in DOMAIN table
    /\ table[get_cache_key(last.query)].answer = last.answer
    /\ Document(last.query) \notin completed
    /\ disk # None
    /\ ~InSeq(Document(last.query), disk[1])
    /\ faiss = disk

(***************************************************************************)
(* Properties of the retraining trigger                                    *)
(***************************************************************************)

\* The invocation that just returned success, and what SageMaker holds of it.
Succeeded == returned # None /\ returned[1].status = "success"
LastPackage == sagemaker.packages[Len(sagemaker.packages)]
DeployedBy(ts) ==
    /\ ts \in sagemaker.models
    /\ ts \in sagemaker.configs
    /\ sagemaker.endpoint = Some(ts)
NothingDeployedBy(ts) ==
    /\ ts \notin sagemaker.models
    /\ ts \notin sagemaker.configs
    /\ sagemaker.endpoint # Some(ts)

\* C35: after a completed training the model package is registered as
\* Approved, and the model, the endpoint configuration and the endpoint are
\* created or updated, exactly when a MAPE metric is available and is below
\* 20; otherwise the package is registered as PendingManualApproval and
\* nothing is deployed; the returned deployed flag equals
\* (approval = Approved).
C35_DeployIffBelowThreshold ==
    Succeeded =>
        LET r == returned[1]
            below == r.mape # None /\ r.mape[1] < MAPE_THRESHOLD
        IN /\ LastPackage.by = r.job
           /\ LastPackage.approval = r.approval
           /\ below => (r.approval = "Approved" /\ DeployedBy(r.job))
           /\ ~below => (r.approval = "PendingManualApproval" /\ NothingDeployedBy(r.job))
           /\ r.deployed = (r.approval = "Approved")

\* has_new_data, every S3 call answering
NoNewData(b) ==
    /\ b.last_trained # None
    /\ NewCsv(b, b.last_trained[1].trained_at) = {}

\* C36: an invocation that finds no CSV file under bronze/ newer than the
\* recorded time of the last training returns skipped and starts no
\* training job; an invocation whose training job ends Failed or Stopped
\* returns failed and registers no model package, deploys nothing and leaves
\* the record of the last training as it was, so that the same data is new
\* to the next invocation.
C36_OnlyNewDataOnlyCompleted ==
    [][/\ (lpc = "idle" /\ runs' # runs /\ NoNewData(bucket)) =>
            /\ returned' = Some([status |-> "skipped", reason |-> "no_new_data"])
            /\ lpc' = "idle"
            /\ sagemaker' = sagemaker
            /\ bucket' = bucket
       /\ (lpc = "wait" /\ returned' # None /\ returned'[1].status = "failed") =>
            /\ sagemaker' = sagemaker
            /\ bucket' = bucket
            /\ has_new_data(bucket', "none")
      ]_vars

====
